---- MODULE Spec2Model ----
(***************************************************************************)
(* Void-and-replace order-correction workflow of the owner dashboard       *)
(* (src/app/owner/page.tsx, OwnerDashboard) over the hosted backend's      *)
(* orders / order_lines tables.                                            *)
(*                                                                         *)
(* Granularity: one action per handler invocation (the synchronous code up *)
(* to the first awaited backend call) and one action per backend response  *)
(* (the call's effect on the store, followed by the synchronous code up to *)
(* the next awaited call).  A backend call either succeeds or returns an   *)
(* error; a failed call leaves the store unchanged.                        *)
(*                                                                         *)
(* Money is kept in mils (1/1000 peso): a whole-centavo amount is a        *)
(* multiple of 10.  Order ids are the row's position in the orders table   *)
(* (rows are never deleted).                                               *)
(***************************************************************************)
EXTENDS Integers, Sequences, FiniteSets, TLC

-----------------------------------------------------------------------------
(* Bounds of the model *)

MaxOrders == 3
MaxQty == 2
MaxFailures == 1

(* Program constants *)

MinReasonLen == 3

NoId == 0
NoTime == 0
NoUser == "null"
NullReason == <<"NULL">>

Owners == {"owner1"}
(* The instants new Date() may return. *)
Times == {1}

(* The void reasons typed by the owner, as sequences of characters. *)
Reasons ==
    { <<>>,
      <<" ", "a", "b", " ">>,
      <<" ", "b", "a", "d", " ">> }

(* The backend table menu_items: item id -> price.  Z is priced below the  *)
(* centavo (12.504).                                                       *)
Items == {"X", "Y", "Z"}

Menu ==
    [m \in Items |-> CASE m = "X" -> 3000
                       [] m = "Y" -> 4550
                       [] OTHER   -> 12504]

(* The cart the cashier page has submitted before the dashboard opens:     *)
(* cart lines as built by addToCart / inc (id, price, qty).                *)
InitCarts ==
    { [ payment |-> "GCASH",
        cart    |-> << [id |-> "X", price |-> 3000, qty |-> 2] >> ] }

-----------------------------------------------------------------------------
(* Pure helpers *)

RECURSIVE SumSeq(_)
SumSeq(s) ==
    IF s = <<>> THEN 0 ELSE Head(s) + SumSeq(Tail(s))

MapSeq(s, F(_)) ==
    [i \in 1..Len(s) |-> F(s[i])]

RECURSIVE TrimLeft(_)
TrimLeft(s) ==
    IF s # <<>> /\ Head(s) = " " THEN TrimLeft(Tail(s)) ELSE s

RECURSIVE TrimRight(_)
TrimRight(s) ==
    IF s # <<>> /\ s[Len(s)] = " " THEN TrimRight(SubSeq(s, 1, Len(s) - 1)) ELSE s

(* String.prototype.trim *)
Trim(s) ==
    TrimRight(TrimLeft(s))

-----------------------------------------------------------------------------
(* Cashier page: what placeOrder writes for a cart *)

Round2Down(x) ==
    (x \div 10) * 10

(* Number(x.toFixed(2)) for x >= 0: the nearest whole-centavo amount.  The *)
(* amounts of the model are never halfway between two centavos.            *)
Round2(x) ==
    ((x + 5) \div 10) * 10

CartTotal(cart) ==
    SumSeq(MapSeq(cart, LAMBDA l : l.price * l.qty))

(* The backend's clock when it fills created_at (column default now()):   *)
(* 2024-01-01 10:00 in Manila, as a UTC timestamp.                         *)
Now == [y |-> 2024, m |-> 1, d |-> 1, hh |-> 2, mm |-> 0]

PlacedHeader(cart, branch, payment) ==
    [ created_at   |-> Now,
      branch_id    |-> branch,
      payment_type |-> payment,
      total_amount |-> Round2(CartTotal(cart)),
      status       |-> "NEW",
      replaces     |-> NoId,
      replaced_by  |-> NoId,
      voided_at    |-> NoTime,
      voided_by    |-> NoUser,
      void_reason  |-> NullReason ]

PlacedLines(cart, orderId) ==
    MapSeq(cart, LAMBDA l :
        [ order_id     |-> orderId,
          menu_item_id |-> l.id,
          qty          |-> l.qty,
          unit_price   |-> Round2(l.price),
          line_total   |-> Round2(l.price * l.qty) ])

-----------------------------------------------------------------------------
(* Backend tables: effect of one successful request *)

InsertOrder(os, row) ==
    Append(os, row)

InsertLines(ol, rows) ==
    [i \in DOMAIN ol |-> ol[i] \o SelectSeq(rows, LAMBDA r : r.order_id = i)]

DeleteLinesNothing(ol, orderId) ==
    ol

DeleteLines(ol, orderId) ==
    [i \in DOMAIN ol |-> IF i = orderId THEN <<>> ELSE ol[i]]

UpdateTotal(os, orderId, total) ==
    [i \in DOMAIN os |->
        IF i = orderId THEN [os[i] EXCEPT !.total_amount = total] ELSE os[i]]

UpdatePaidNothing(os, orderId) ==
    os

UpdatePaid(os, orderId) ==
    [i \in DOMAIN os |->
        IF i = orderId THEN [os[i] EXCEPT !.status = "PAID"] ELSE os[i]]

UpdateVoidedNoAudit(os, orderId, at, by, reason, newId) ==
    [i \in DOMAIN os |->
        IF i = orderId
        THEN [os[i] EXCEPT !.status = "VOIDED", !.replaced_by = newId]
        ELSE os[i]]

UpdateVoided(os, orderId, at, by, reason, newId) ==
    [i \in DOMAIN os |->
        IF i = orderId
        THEN [os[i] EXCEPT !.status = "VOIDED",
                           !.voided_at = at,
                           !.voided_by = by,
                           !.void_reason = reason,
                           !.replaced_by = newId]
        ELSE os[i]]

-----------------------------------------------------------------------------
(* Void/replace: values computed by the handlers *)

DraftHeader(old, oldOrderId) ==
    [ created_at   |-> Now,
      branch_id    |-> old.branch_id,
      payment_type |-> old.payment_type,
      total_amount |-> old.total_amount,
      status       |-> "DRAFT",
      replaces     |-> oldOrderId,
      replaced_by  |-> NoId,
      voided_at    |-> NoTime,
      voided_by    |-> NoUser,
      void_reason  |-> NullReason ]

NewLinesDbUnitQty(lines, newId) ==
    MapSeq(lines, LAMBDA l :
        [ order_id     |-> newId,
          menu_item_id |-> l.menu_item_id,
          qty          |-> 1,
          unit_price   |-> l.unit_price,
          line_total   |-> l.unit_price ])

NewLinesDb(lines, newId) ==
    MapSeq(lines, LAMBDA l :
        [ order_id     |-> newId,
          menu_item_id |-> l.menu_item_id,
          qty          |-> l.qty,
          unit_price   |-> l.unit_price,
          line_total   |-> l.line_total ])

EditorLines(lines) ==
    MapSeq(lines, LAMBDA l :
        [ menu_item_id |-> l.menu_item_id,
          unit_price   |-> l.unit_price,
          qty          |-> l.qty ])

ReplaceTotal(rl) ==
    SumSeq(MapSeq(rl, LAMBDA l : l.unit_price * l.qty))

SavePayload(rl, newId) ==
    MapSeq(rl, LAMBDA l :
        [ order_id     |-> newId,
          menu_item_id |-> l.menu_item_id,
          qty          |-> l.qty,
          unit_price   |-> l.unit_price,
          line_total   |-> l.unit_price * l.qty ])

ReasonTooShortUntrimmed(reason) ==
    Len(reason) < MinReasonLen

ReasonTooShort(reason) ==
    Len(Trim(reason)) < MinReasonLen

-----------------------------------------------------------------------------
(* State *)

VARIABLES
    orders,          \* backend table orders: id -> header row
    order_lines,     \* backend table order_lines: order id -> its rows
    replaceMode,
    replaceOldId,
    replaceNewId,
    voidReason,
    replaceSaving,
    replaceLines,
    task,            \* the handler invocation in flight
    failures,        \* backend calls that have returned an error so far
    last,            \* what the handler of the latest UI event showed
    menu,            \* cashier page: the active menu items it has loaded
    cart,
    payment,
    saving,
    branchId,
    placing,         \* cashier page: the placeOrder invocation in flight
    notice,          \* cashier page: alerts of the latest placeOrder
    request,         \* reset route: the POST request being served
    config,          \* reset route: environment and app_settings
    handler,         \* reset route: position and locals of POST
    responses,       \* reset route: the responses returned for the request
    updateCalls,     \* reset route: the calls of admin.updateUserById
    mounted,         \* dashboard: the component is mounted
    autoRefresh,
    refreshEverySec,
    timers,          \* dashboard: the intervals the browser has running
    effectTimer,     \* dashboard: the id held by the timer effect's cleanup
    created,         \* dashboard: setInterval calls so far
    reload,          \* dashboard: what started the refreshAll in flight
    startDate,
    endDate,
    tz,              \* the browser's timezone offset, minutes east of UTC
    range,           \* the result of the latest phDateRangeToUtcIso
    closure,         \* dashboard: the dates the interval's refreshAll holds
    dashOrders,      \* dashboard: the state `orders` (rows loaded)
    lines,           \* dashboard: the state `lines` (rows loaded, hydrated)
    loading,
    errorMsg,
    loads,           \* dashboard: the reloads in flight
    csv,             \* dashboard: the rows of the latest exported file
    inflight         \* editor: handler invocations running side by side

store == <<orders, order_lines>>
cashier == <<menu, cart, payment, saving, branchId, placing, notice>>
route == <<request, config, handler, responses, updateCalls>>
ownerPage == <<replaceMode, replaceOldId, replaceNewId, voidReason, replaceSaving,
               replaceLines, task, last, inflight>>
refresher == <<mounted, autoRefresh, refreshEverySec, timers, effectTimer,
               created, reload, closure>>
view == <<dashOrders, lines>>
dashboard == <<dashOrders, lines, loading, errorMsg, loads, csv>>
dates == <<startDate, endDate, tz, range>>
(* The state outside the owner dashboard's void/replace workflow. *)
elsewhere == <<cashier, route, refresher, dates, dashboard, inflight>>
outsideCashier == <<ownerPage, route, refresher, dates, dashboard>>
outsideRoute == <<store, ownerPage, cashier, failures, refresher, dates,
                  dashboard>>
editor == <<replaceMode, replaceOldId, replaceNewId, voidReason, replaceLines>>
vars == <<orders, order_lines, replaceMode, replaceOldId, replaceNewId,
          voidReason, replaceSaving, replaceLines, task, failures, last,
          menu, cart, payment, saving, branchId, placing, notice,
          request, config, handler, responses, updateCalls,
          mounted, autoRefresh, refreshEverySec, timers, effectTimer, created,
          reload, startDate, endDate, tz, range, closure,
          dashOrders, lines, loading, errorMsg, loads, csv, inflight>>

NoOld == [branch_id |-> "null", payment_type |-> "null", total_amount |-> 0]

(* A handler invocation in flight: its closure (the state captured by the  *)
(* render it was created in), its position, the rows it has read, the      *)
(* number of backend calls it has issued and the index of its first failed *)
(* call.  A Save Draft that directly follows a successful Save Draft       *)
(* (again) also records the draft's rows and total as it found them.       *)
NoTask ==
    [ op       |-> "none",
      pc       |-> "done",
      oldId    |-> NoId,
      newId    |-> NoId,
      lines    |-> <<>>,
      reason   |-> <<>>,
      ownerId  |-> NoUser,
      old      |-> NoOld,
      oldLines |-> <<>>,
      calls    |-> 0,
      failedAt |-> 0,
      again    |-> FALSE,
      preLines |-> <<>>,
      preTotal |-> 0 ]

(* The Save Draft and Finalize Replacement buttons are never disabled: two *)
(* invocations can run side by side, each with its own closure.            *)
MaxOverlap == 2

NoOverlap == [i \in 1..MaxOverlap |-> NoTask]

(* The dialogs of one handler invocation: the answer to its                *)
(* window.confirm and the alerts it has shown.                             *)
Shown(op, confirm, alerts) ==
    [op |-> op, confirm |-> confirm, alerts |-> alerts]

(* A UI event whose handler shows no dialog. *)
Quiet == Shown("none", "none", <<>>)

Resting == task.pc = "done"

(* alert and confirm are modal: the page takes the next UI event once the  *)
(* dialogs of the previous handler are gone.                               *)
Idle == Resting /\ last = Quiet

NoBranch == "null"

(* No placeOrder invocation in flight.  An invocation holds the cart,      *)
(* payment and branch of the render it was created in.                     *)
NoPlacing ==
    [ pc      |-> "done",
      cart    |-> <<>>,
      payment |-> "CASH",
      branch  |-> NoBranch,
      orderId |-> NoId ]

(* The alerts of the latest placeOrder invocation, if there was one. *)
NoNotice == [op |-> "none", alerts |-> <<>>]

Noticed(alerts) == [op |-> "placeOrder", alerts |-> alerts]

(* The state of a cashier page that has loaded nothing. *)
CashierClosed ==
    /\ menu = <<>>
    /\ cart = <<>>
    /\ payment = "CASH"
    /\ saving = FALSE
    /\ branchId = NoBranch
    /\ placing = NoPlacing
    /\ notice = NoNotice

(* JavaScript values of the request body's fields. *)
Undefined == [js |-> "undefined"]

Str(chars) == [js |-> "string", chars |-> chars]

Num(n) == [js |-> "number", value |-> n]

NoRequest ==
    [ authorization |-> <<>>,
      json          |-> FALSE,
      mode          |-> Undefined,
      newPassword   |-> Undefined ]

NoConfig == [env |-> FALSE, cashier_user_id |-> NoUser]

(* The locals of POST.  A handler that serves no request is at "idle". *)
NoHandler ==
    [ pc           |-> "idle",
      token        |-> <<>>,
      userErr      |-> FALSE,
      callerId     |-> NoUser,
      profErr      |-> FALSE,
      role         |-> "null",
      sErr         |-> FALSE,
      targetUserId |-> NoUser,
      updErr       |-> FALSE ]

(* No request has reached the reset route. *)
RouteIdle ==
    /\ request = NoRequest
    /\ config = NoConfig
    /\ handler = NoHandler
    /\ responses = <<>>
    /\ updateCalls = <<>>

DefaultRefreshSec == 1800

(* setInterval(callback, ms): the running interval. *)
Interval(id, sec) == [id |-> id, ms |-> sec * 1000]

(* The dashboard as its mount effects leave it: auto-refresh on, one       *)
(* interval running.                                                       *)
DashboardMounted ==
    /\ mounted = TRUE
    /\ autoRefresh = TRUE
    /\ refreshEverySec = DefaultRefreshSec
    /\ timers = {Interval(1, DefaultRefreshSec)}
    /\ effectTimer = 1
    /\ created = 1
    /\ reload = "none"

(* No dashboard is mounted. *)
DashboardUnmounted ==
    /\ mounted = FALSE
    /\ autoRefresh = TRUE
    /\ refreshEverySec = DefaultRefreshSec
    /\ timers = {}
    /\ effectTimer = NoId
    /\ created = 0
    /\ reload = "none"

Ymd(y, m, d) == [y |-> y, m |-> m, d |-> d]

NoRange ==
    [ startUtc |-> [y |-> 0, m |-> 0, d |-> 0, hh |-> 0, mm |-> 0],
      endUtc   |-> [y |-> 0, m |-> 0, d |-> 0, hh |-> 0, mm |-> 0] ]

(* Instants are counted in whole minutes since the epoch; every amount of  *)
(* the function is a whole number of minutes.                              *)
MinutesPerDay == 1440

(* Days from 1970-01-01 to the civil date (y, m, d) of the proleptic        *)
(* Gregorian calendar; a day past the month's end runs into the next month *)
(* as in Date.UTC.                                                         *)
DaysFromCivil(y, m, d) ==
    LET yy  == IF m <= 2 THEN y - 1 ELSE y
        era == yy \div 400
        yoe == yy - era * 400
        mp  == (m + 9) % 12
        doy == (153 * mp + 2) \div 5 + d - 1
        doe == yoe * 365 + yoe \div 4 - yoe \div 100 + doy
    IN  era * 146097 + doe - 719468

(* Date.UTC(y, monthIndex, d, 0, 0, 0), in minutes. *)
DateUTC(y, monthIndex, d) ==
    DaysFromCivil(y, monthIndex + 1, d) * MinutesPerDay

(* new Date(t).toISOString(): the UTC calendar fields of the instant t     *)
(* (seconds and milliseconds are zero).                                    *)
ToISOString(t) ==
    LET z   == t \div MinutesPerDay + 719468
        era == z \div 146097
        doe == z - era * 146097
        yoe == (doe - doe \div 1460 + doe \div 36524 - doe \div 146096) \div 365
        doy == doe - (365 * yoe + yoe \div 4 - yoe \div 100)
        mp  == (5 * doy + 2) \div 153
        d   == doy - (153 * mp + 2) \div 5 + 1
        m   == IF mp < 10 THEN mp + 3 ELSE mp - 9
        y   == yoe + era * 400 + (IF m <= 2 THEN 1 ELSE 0)
        rem == t % MinutesPerDay
    IN  [y |-> y, m |-> m, d |-> d, hh |-> rem \div 60, mm |-> rem % 60]

phDateRangeToUtcIsoLocal(start, endInclusive) ==
    LET startMs        == DateUTC(start.y, start.m - 1, start.d) - tz
        endExclusiveMs == DateUTC(endInclusive.y, endInclusive.m - 1, endInclusive.d)
                              + 24 * 60 - tz
    IN  [startUtc |-> ToISOString(startMs), endUtc |-> ToISOString(endExclusiveMs)]

phDateRangeToUtcIso(start, endInclusive) ==
    LET offsetMin        == 8 * 60
        startPhMs        == DateUTC(start.y, start.m - 1, start.d)
        endPhMsInclusive == DateUTC(endInclusive.y, endInclusive.m - 1, endInclusive.d)
        endPhExclusiveMs == endPhMsInclusive + 24 * 60
        startUtcMs       == startPhMs - offsetMin
        endUtcMs         == endPhExclusiveMs - offsetMin
    IN  [startUtc |-> ToISOString(startUtcMs), endUtc |-> ToISOString(endUtcMs)]

(* A timestamptz value as an instant, in minutes since the epoch. *)
Instant(ts) ==
    DateUTC(ts.y, ts.m - 1, ts.d) + ts.hh * 60 + ts.mm

(* The backend table menu_items: item id -> name. *)
ItemNames ==
    [m \in Items |-> CASE m = "X" -> <<"T", "e", "a">>
                       [] m = "Y" -> <<"A", ",", "B">>
                       [] OTHER   -> <<"6", "\"">>]

(* The columns loadMainRange selects from orders. *)
OrderRow(os, id) ==
    [ id           |-> id,
      branch_id    |-> os[id].branch_id,
      created_at   |-> os[id].created_at,
      payment_type |-> os[id].payment_type,
      total_amount |-> os[id].total_amount,
      status       |-> os[id].status ]

(* from("orders").select(..).gte("created_at", startUtc)                   *)
(*                          .lt("created_at", endUtc)                      *)
OrdersQuery(os, startUtc, endUtc) ==
    SelectSeq([i \in 1..Len(os) |-> OrderRow(os, i)],
              LAMBDA r : /\ Instant(r.created_at) >= Instant(startUtc)
                         /\ Instant(r.created_at) < Instant(endUtc))

OrderIds(ord) ==
    {ord[k].id : k \in DOMAIN ord}

RECURSIVE LinesUpTo(_, _, _)
LinesUpTo(ols, orderIds, n) ==
    IF n = 0 THEN <<>>
    ELSE LinesUpTo(ols, orderIds, n - 1) \o
         (IF n \in orderIds
          THEN [k \in 1..Len(ols[n]) |->
                  [ order_id     |-> ols[n][k].order_id,
                    menu_item_id |-> ols[n][k].menu_item_id,
                    qty          |-> ols[n][k].qty,
                    line_total   |-> ols[n][k].line_total ]]
          ELSE <<>>)

(* from("order_lines").select(..).in("order_id", orderIds) *)
LinesQuery(ols, orderIds) ==
    LinesUpTo(ols, orderIds, Len(ols))

(* The lines with the item names of menu_items, "Unknown" for an item the  *)
(* table does not hold.                                                    *)
Hydrate(rawLines) ==
    [k \in 1..Len(rawLines) |->
        [ order_id     |-> rawLines[k].order_id,
          menu_item_id |-> rawLines[k].menu_item_id,
          qty          |-> rawLines[k].qty,
          line_total   |-> rawLines[k].line_total,
          name         |-> IF rawLines[k].menu_item_id \in DOMAIN ItemNames
                           THEN ItemNames[rawLines[k].menu_item_id]
                           ELSE <<"U", "n", "k", "n", "o", "w", "n">> ]]

(* What a loadMainRange(startYmd, endYmd) that meets no error and no other *)
(* writer leaves in the states orders and lines.                           *)
MainRange(os, ols, startYmd, endYmd) ==
    LET r   == phDateRangeToUtcIso(startYmd, endYmd)
        ord == OrdersQuery(os, r.startUtc, r.endUtc)
    IN  [ orders |-> ord,
          lines  |-> Hydrate(LinesQuery(ols, OrderIds(ord))) ]

(* The dates held by the refreshAll that an interval's callback calls. *)
Captured(start, end) == [startDate |-> start, endDate |-> end]

(* The dashboard after its first load: nothing in flight, nothing          *)
(* exported; the timer effect ran in the first render.                     *)
DashboardLoaded ==
    /\ dashOrders = MainRange(orders, order_lines, startDate, endDate).orders
    /\ lines = MainRange(orders, order_lines, startDate, endDate).lines
    /\ loading = FALSE
    /\ errorMsg = ""
    /\ loads = <<>>
    /\ csv = <<>>
    /\ closure = Captured(startDate, endDate)

(* The dashboard state of a page that is not open. *)
DashboardBlank ==
    /\ dashOrders = <<>>
    /\ lines = <<>>
    /\ loading = TRUE
    /\ errorMsg = ""
    /\ loads = <<>>
    /\ csv = <<>>
    /\ closure = Captured(startDate, endDate)

(* The date filter as the dashboard initialises it, no range computed. *)
DatesUnset ==
    /\ startDate = Ymd(2024, 1, 1)
    /\ endDate = Ymd(2024, 1, 1)
    /\ tz = 480
    /\ range = NoRange

Init ==
    /\ CashierClosed
    /\ RouteIdle
    /\ DashboardMounted
    /\ DatesUnset
    /\ \E c \in InitCarts :
          /\ orders = << PlacedHeader(c.cart, "b1", c.payment) >>
          /\ order_lines = << PlacedLines(c.cart, 1) >>
    /\ replaceMode = FALSE
    /\ replaceOldId = NoId
    /\ replaceNewId = NoId
    /\ voidReason = <<>>
    /\ replaceSaving = FALSE
    /\ replaceLines = <<>>
    /\ task = NoTask
    /\ last = Quiet
    /\ failures = 0
    /\ DashboardLoaded
    /\ inflight = NoOverlap

(* The backend answers one call: with an error (at most MaxFailures times  *)
(* in a run) or with success.                                              *)
Answer(fail) ==
    /\ fail => failures < MaxFailures
    /\ failures' = IF fail THEN failures + 1 ELSE failures

Issue(t, pc) ==
    [t EXCEPT !.pc = pc, !.calls = @ + 1]

Failed(t) ==
    [t EXCEPT !.failedAt = IF @ = 0 THEN t.calls ELSE @]

Alert(msg) ==
    [last EXCEPT !.alerts = Append(@, msg)]

-----------------------------------------------------------------------------
(* startVoidAndReplace *)

OldHeader(os, oldOrderId) ==
    [ branch_id    |-> os[oldOrderId].branch_id,
      payment_type |-> os[oldOrderId].payment_type,
      total_amount |-> os[oldOrderId].total_amount ]

StartAbortSilent ==
    /\ task' = NoTask
    /\ replaceSaving' = FALSE
    /\ UNCHANGED <<store, editor, last>>

(* catch + finally: alert the backend's message, clear the busy flag. *)
StartAbort ==
    /\ task' = NoTask
    /\ last' = Alert("error")
    /\ replaceSaving' = FALSE
    /\ UNCHANGED <<store, editor>>

(* The editor state set once every call of startVoidAndReplace succeeded. *)
StartFinish(newId) ==
    /\ replaceMode' = TRUE
    /\ replaceOldId' = task.oldId
    /\ replaceNewId' = newId
    /\ replaceLines' = EditorLines(task.oldLines)
    /\ voidReason' = <<>>
    /\ replaceSaving' = FALSE
    /\ task' = NoTask
    /\ UNCHANGED last

StartClick(o, ok) ==
    /\ UNCHANGED <<failures, elsewhere>>
    /\ Idle
    /\ ~replaceSaving
    /\ o \in DOMAIN orders
    /\ Len(orders) < MaxOrders
    /\ IF ok
       THEN /\ replaceSaving' = TRUE
            /\ task' = [NoTask EXCEPT !.op = "startVoidAndReplace",
                                      !.pc = "readOld",
                                      !.oldId = o,
                                      !.calls = 1]
            /\ last' = Shown("startVoidAndReplace", "ok", <<>>)
       ELSE UNCHANGED <<replaceSaving, task, last>>
    /\ UNCHANGED <<store, editor>>

StartReadOld(fail) ==
    /\ Answer(fail)
    /\ UNCHANGED elsewhere
    /\ task.op = "startVoidAndReplace"
    /\ task.pc = "readOld"
    /\ IF fail
       THEN StartAbort
       ELSE /\ task' = Issue([task EXCEPT !.old = OldHeader(orders, task.oldId)],
                             "readLines")
            /\ UNCHANGED <<store, editor, replaceSaving, last>>

StartReadLines(fail) ==
    /\ Answer(fail)
    /\ UNCHANGED elsewhere
    /\ task.op = "startVoidAndReplace"
    /\ task.pc = "readLines"
    /\ IF fail
       THEN StartAbort
       ELSE /\ task' = Issue([task EXCEPT !.oldLines = order_lines[task.oldId]],
                             "insertOrder")
            /\ UNCHANGED <<store, editor, replaceSaving, last>>

StartInsertOrder(fail) ==
    /\ Answer(fail)
    /\ UNCHANGED elsewhere
    /\ task.op = "startVoidAndReplace"
    /\ task.pc = "insertOrder"
    /\ IF fail
       THEN StartAbort
       ELSE /\ orders' = InsertOrder(orders, DraftHeader(task.old, task.oldId))
            /\ order_lines' = Append(order_lines, <<>>)
            /\ IF NewLinesDb(task.oldLines, Len(orders) + 1) # <<>>
               THEN /\ task' = Issue([task EXCEPT !.newId = Len(orders) + 1],
                                     "insertLines")
                    /\ UNCHANGED <<editor, replaceSaving, last>>
               ELSE StartFinish(Len(orders) + 1)

StartInsertLines(fail) ==
    /\ Answer(fail)
    /\ UNCHANGED elsewhere
    /\ task.op = "startVoidAndReplace"
    /\ task.pc = "insertLines"
    /\ IF fail
       THEN StartAbort
       ELSE /\ order_lines' = InsertLines(order_lines,
                                          NewLinesDb(task.oldLines, task.newId))
            /\ UNCHANGED orders
            /\ StartFinish(task.newId)

-----------------------------------------------------------------------------
(* Editing operations (in memory) *)

IncLine(rl, menuItemId) ==
    MapSeq(rl, LAMBDA l :
        IF l.menu_item_id = menuItemId THEN [l EXCEPT !.qty = l.qty + 1] ELSE l)

DecLineToZero(rl, menuItemId) ==
    SelectSeq(
        MapSeq(rl, LAMBDA l :
            IF l.menu_item_id = menuItemId THEN [l EXCEPT !.qty = l.qty - 1] ELSE l),
        LAMBDA l : l.qty > 0)

DecLine(rl, menuItemId) ==
    MapSeq(rl, LAMBDA l :
        IF l.menu_item_id = menuItemId
        THEN [l EXCEPT !.qty = IF l.qty - 1 > 1 THEN l.qty - 1 ELSE 1]
        ELSE l)

RemoveLine(rl, menuItemId) ==
    SelectSeq(rl, LAMBDA l : l.menu_item_id # menuItemId)

(* menuAll is initialised to [] and setMenuAll is never called. *)
menuAll == <<>>

(* repAdd's updater over the catalog state (rows id, price). *)
AddLine(rl, catalog, menuItemId) ==
    LET found == SelectSeq(catalog, LAMBDA it : it.id = menuItemId)
    IN  IF found = <<>> THEN rl
        ELSE IF \E i \in DOMAIN rl : rl[i].menu_item_id = menuItemId
        THEN IncLine(rl, menuItemId)
        ELSE Append(rl, [ menu_item_id |-> found[1].id,
                          unit_price   |-> found[1].price,
                          qty          |-> 1 ])

EditorItems ==
    {replaceLines[i].menu_item_id : i \in DOMAIN replaceLines}

repInc(menuItemId) ==
    /\ UNCHANGED <<failures, elsewhere>>
    /\ Idle
    /\ replaceMode
    /\ \E i \in DOMAIN replaceLines :
          replaceLines[i].menu_item_id = menuItemId /\ replaceLines[i].qty < MaxQty
    /\ replaceLines' = IncLine(replaceLines, menuItemId)
    /\ last' = Quiet
    /\ UNCHANGED <<store, replaceMode, replaceOldId, replaceNewId, voidReason,
                   replaceSaving, task>>

repDec(menuItemId) ==
    /\ UNCHANGED <<failures, elsewhere>>
    /\ Idle
    /\ replaceMode
    /\ menuItemId \in EditorItems
    /\ replaceLines' = DecLine(replaceLines, menuItemId)
    /\ last' = Quiet
    /\ UNCHANGED <<store, replaceMode, replaceOldId, replaceNewId, voidReason,
                   replaceSaving, task>>

repRemove(menuItemId) ==
    /\ UNCHANGED <<failures, elsewhere>>
    /\ Idle
    /\ replaceMode
    /\ menuItemId \in EditorItems
    /\ replaceLines' = RemoveLine(replaceLines, menuItemId)
    /\ last' = Quiet
    /\ UNCHANGED <<store, replaceMode, replaceOldId, replaceNewId, voidReason,
                   replaceSaving, task>>

repAdd(menuItemId) ==
    /\ UNCHANGED <<failures, elsewhere>>
    /\ Idle
    /\ replaceMode
    /\ \A i \in DOMAIN AddLine(replaceLines, menuAll, menuItemId) :
          AddLine(replaceLines, menuAll, menuItemId)[i].qty <= MaxQty
    /\ replaceLines' = AddLine(replaceLines, menuAll, menuItemId)
    /\ last' = Quiet
    /\ UNCHANGED <<store, replaceMode, replaceOldId, replaceNewId, voidReason,
                   replaceSaving, task>>

setVoidReason(r) ==
    /\ UNCHANGED <<failures, elsewhere>>
    /\ Idle
    /\ replaceMode
    /\ voidReason' = r
    /\ last' = Quiet
    /\ UNCHANGED <<store, replaceMode, replaceOldId, replaceNewId, replaceLines,
                   replaceSaving, task>>

-----------------------------------------------------------------------------
(* saveReplacementDraft, also run as the first part of finalizeReplacement *)

(* What follows the return of saveReplacementDraft: nothing for the Save   *)
(* Draft button; for finalizeReplacement the statement after               *)
(* `await saveReplacementDraft()`, which issues the PAID update.           *)
AfterSave(t) ==
    IF t.op = "finalizeReplacement" THEN Issue(t, "paid") ELSE NoTask

(* catch + finally of saveReplacementDraft: the error is alerted and not   *)
(* rethrown.                                                               *)
SaveAbort ==
    /\ task' = AfterSave(Failed(task))
    /\ last' = Alert("error")
    /\ replaceSaving' = FALSE
    /\ UNCHANGED <<store, editor>>

(* The latest UI event was a Save Draft that succeeded: this click saves   *)
(* the same editor lines to the same draft again.                          *)
SaveAgain ==
    last = Shown("saveReplacementDraft", "none", <<"draft_saved">>)

SaveClick ==
    /\ UNCHANGED <<failures, elsewhere>>
    /\ Resting
    /\ last = Quiet \/ SaveAgain
    /\ replaceMode
    /\ IF replaceNewId = NoId
       THEN /\ last' = Quiet
            /\ UNCHANGED <<replaceSaving, task>>
       ELSE /\ replaceSaving' = TRUE
            /\ task' = [NoTask EXCEPT
                          !.op = "saveReplacementDraft",
                          !.pc = "saveDelete",
                          !.newId = replaceNewId,
                          !.lines = replaceLines,
                          !.again = SaveAgain,
                          !.preLines = IF SaveAgain THEN order_lines[replaceNewId]
                                       ELSE <<>>,
                          !.preTotal = IF SaveAgain
                                       THEN orders[replaceNewId].total_amount
                                       ELSE 0,
                          !.calls = 1]
            /\ last' = Shown("saveReplacementDraft", "none", <<>>)
    /\ UNCHANGED <<store, editor>>

SaveDelete(fail) ==
    /\ Answer(fail)
    /\ UNCHANGED elsewhere
    /\ task.pc = "saveDelete"
    /\ IF fail
       THEN SaveAbort
       ELSE /\ order_lines' = DeleteLines(order_lines, task.newId)
            /\ task' = Issue(task, IF SavePayload(task.lines, task.newId) # <<>>
                                   THEN "saveInsert" ELSE "saveTotal")
            /\ UNCHANGED <<orders, editor, replaceSaving, last>>

SaveInsert(fail) ==
    /\ Answer(fail)
    /\ UNCHANGED elsewhere
    /\ task.pc = "saveInsert"
    /\ IF fail
       THEN SaveAbort
       ELSE /\ order_lines' = InsertLines(order_lines,
                                          SavePayload(task.lines, task.newId))
            /\ task' = Issue(task, "saveTotal")
            /\ UNCHANGED <<orders, editor, replaceSaving, last>>

SaveTotal(fail) ==
    /\ Answer(fail)
    /\ UNCHANGED elsewhere
    /\ task.pc = "saveTotal"
    /\ IF fail
       THEN SaveAbort
       ELSE /\ orders' = UpdateTotal(orders, task.newId, ReplaceTotal(task.lines))
            /\ task' = AfterSave(task)
            /\ last' = Alert("draft_saved")
            /\ replaceSaving' = FALSE
            /\ UNCHANGED <<order_lines, editor>>

-----------------------------------------------------------------------------
(* finalizeReplacement *)

EditorReset ==
    /\ replaceMode' = FALSE
    /\ replaceOldId' = NoId
    /\ replaceNewId' = NoId
    /\ replaceLines' = <<>>
    /\ voidReason' = <<>>

FinalizeAbortCloses ==
    /\ task' = NoTask
    /\ last' = Alert("error")
    /\ replaceSaving' = FALSE
    /\ EditorReset
    /\ UNCHANGED store

FinalizeAbort ==
    /\ task' = NoTask
    /\ last' = Alert("error")
    /\ replaceSaving' = FALSE
    /\ UNCHANGED <<store, editor>>

(* The alert of the client-side validation, "none" when it passes. *)
Validation(reason, rl) ==
    IF ReasonTooShort(reason) THEN "reason_too_short"
    ELSE IF rl = <<>> THEN "replacement_empty"
    ELSE "none"

FinalizeClick(ok, sessionUser) ==
    /\ UNCHANGED <<failures, elsewhere>>
    /\ Idle
    /\ replaceMode
    /\ IF replaceOldId = NoId \/ replaceNewId = NoId
       THEN /\ last' = Quiet
            /\ UNCHANGED <<replaceSaving, task>>
       ELSE IF Validation(voidReason, replaceLines) # "none"
       THEN /\ last' = Shown("finalizeReplacement", "none",
                             << Validation(voidReason, replaceLines) >>)
            /\ UNCHANGED <<replaceSaving, task>>
       ELSE IF ~ok
       THEN UNCHANGED <<replaceSaving, task, last>>
       ELSE IF sessionUser = NoUser
       THEN /\ last' = Shown("finalizeReplacement", "ok", <<"login_required">>)
            /\ replaceSaving' = FALSE
            /\ UNCHANGED task
       ELSE /\ task' = [NoTask EXCEPT
                          !.op = "finalizeReplacement",
                          !.pc = "saveDelete",
                          !.oldId = replaceOldId,
                          !.newId = replaceNewId,
                          !.lines = replaceLines,
                          !.reason = voidReason,
                          !.ownerId = sessionUser,
                          !.calls = 1]
            /\ last' = Shown("finalizeReplacement", "ok", <<>>)
            /\ replaceSaving' = TRUE
    /\ UNCHANGED <<store, editor>>

FinalizePaid(fail) ==
    /\ Answer(fail)
    /\ UNCHANGED elsewhere
    /\ task.op = "finalizeReplacement"
    /\ task.pc = "paid"
    /\ IF fail
       THEN FinalizeAbort
       ELSE /\ orders' = UpdatePaid(orders, task.newId)
            /\ task' = Issue(task, "voided")
            /\ UNCHANGED <<order_lines, editor, replaceSaving, last>>

FinalizeVoided(fail, now) ==
    /\ Answer(fail)
    /\ UNCHANGED elsewhere
    /\ task.op = "finalizeReplacement"
    /\ task.pc = "voided"
    /\ IF fail
       THEN FinalizeAbort
       ELSE /\ orders' = UpdateVoided(orders, task.oldId, now, task.ownerId,
                                      Trim(task.reason), task.newId)
            /\ task' = [task EXCEPT !.pc = "refresh"]
            /\ last' = Alert("finalized")
            /\ EditorReset
            /\ UNCHANGED <<order_lines, replaceSaving>>

(* How a reload can end: every query answered, the orders query failed,    *)
(* or the lines query failed after setOrders.                              *)
ReloadOutcomes == {"ok", "orders_failed", "lines_failed"}

(* The states orders and lines a loadMainRange leaves when no other reload *)
(* runs beside it; with no order in the range no lines query is issued.    *)
AfterLoad(outcome, cur, loaded) ==
    CASE outcome = "orders_failed" -> cur
      [] outcome = "lines_failed" /\ loaded.orders # <<>> ->
            [orders |-> loaded.orders, lines |-> cur.lines]
      [] OTHER -> loaded

(* refreshAll reloads the displayed data for the selected dates and        *)
(* catches its own errors; then the finally block of finalizeReplacement   *)
(* runs.                                                                   *)
FinalizeRefresh(outcome) ==
    /\ Answer(outcome # "ok")
    /\ UNCHANGED <<cashier, route, refresher, dates, loads, csv, inflight>>
    /\ task.op = "finalizeReplacement"
    /\ task.pc = "refresh"
    /\ LET after == AfterLoad(outcome,
                              [orders |-> dashOrders, lines |-> lines],
                              MainRange(orders, order_lines, startDate, endDate))
       IN  /\ dashOrders' = after.orders
           /\ lines' = after.lines
    /\ errorMsg' = IF outcome = "ok" THEN "" ELSE "error"
    /\ loading' = FALSE
    /\ task' = NoTask
    /\ replaceSaving' = FALSE
    /\ UNCHANGED <<store, editor, last>>

-----------------------------------------------------------------------------
(* cancelReplacement *)

cancelReplacementAlways(ok) ==
    /\ UNCHANGED <<failures, elsewhere>>
    /\ Idle
    /\ EditorReset
    /\ last' = Shown("cancelReplacement", IF ok THEN "ok" ELSE "declined", <<>>)
    /\ UNCHANGED <<store, replaceSaving, task>>

cancelReplacement(ok) ==
    /\ UNCHANGED <<failures, elsewhere>>
    /\ Idle
    /\ IF ok
       THEN /\ EditorReset
            /\ last' = Shown("cancelReplacement", "ok", <<>>)
       ELSE /\ last' = Shown("cancelReplacement", "declined", <<>>)
            /\ UNCHANGED editor
    /\ UNCHANGED <<store, replaceSaving, task>>

-----------------------------------------------------------------------------

(* The owner dismisses the dialogs the finished handler has shown. *)
Dismiss ==
    /\ UNCHANGED <<failures, elsewhere>>
    /\ Resting
    /\ last # Quiet
    /\ last' = Quiet
    /\ UNCHANGED <<store, editor, replaceSaving, task>>

Next ==
    \/ \E o \in 1..MaxOrders, ok \in BOOLEAN : StartClick(o, ok)
    \/ \E fail \in BOOLEAN : StartReadOld(fail)
    \/ \E fail \in BOOLEAN : StartReadLines(fail)
    \/ \E fail \in BOOLEAN : StartInsertOrder(fail)
    \/ \E fail \in BOOLEAN : StartInsertLines(fail)
    \/ \E m \in Items : repInc(m)
    \/ \E m \in Items : repDec(m)
    \/ \E m \in Items : repRemove(m)
    \/ \E m \in Items : repAdd(m)
    \/ \E r \in Reasons : setVoidReason(r)
    \/ SaveClick
    \/ \E fail \in BOOLEAN : SaveDelete(fail)
    \/ \E fail \in BOOLEAN : SaveInsert(fail)
    \/ \E fail \in BOOLEAN : SaveTotal(fail)
    \/ \E ok \in BOOLEAN, u \in Owners \cup {NoUser} : FinalizeClick(ok, u)
    \/ \E fail \in BOOLEAN : FinalizePaid(fail)
    \/ \E fail \in BOOLEAN, now \in Times : FinalizeVoided(fail, now)
    \/ \E outcome \in ReloadOutcomes : FinalizeRefresh(outcome)
    \/ \E ok \in BOOLEAN : cancelReplacement(ok)
    \/ Dismiss

Spec == Init /\ [][Next]_vars

-----------------------------------------------------------------------------
(* The replacement editor alone: it has just been opened on a placed order *)
(* (startVoidAndReplace returned, its dialogs dismissed) and only the      *)
(* editing operations run.                                                 *)

(* Carts of one or two distinct menu items, as the cashier page builds     *)
(* them.                                                                   *)
EditCarts ==
    { << [id |-> m, price |-> Menu[m], qty |-> q] >> :
          m \in Items, q \in 1..MaxQty }
    \cup
    { << [id |-> p[1], price |-> Menu[p[1]], qty |-> q1],
         [id |-> p[2], price |-> Menu[p[2]], qty |-> q2] >> :
          p \in {pp \in Items \X Items : pp[1] # pp[2]},
          q1 \in 1..MaxQty, q2 \in 1..MaxQty }

InitEdit ==
    /\ CashierClosed
    /\ RouteIdle
    /\ DashboardMounted
    /\ DatesUnset
    /\ \E c \in EditCarts :
          LET placed == << PlacedHeader(c, "b1", "CASH") >>
              rows   == PlacedLines(c, 1)
          IN  /\ orders = InsertOrder(placed, DraftHeader(OldHeader(placed, 1), 1))
              /\ order_lines = << rows, NewLinesDb(rows, 2) >>
              /\ replaceLines = EditorLines(rows)
    /\ replaceMode = TRUE
    /\ replaceOldId = 1
    /\ replaceNewId = 2
    /\ voidReason = <<>>
    /\ replaceSaving = FALSE
    /\ task = NoTask
    /\ last = Quiet
    /\ failures = 0
    /\ DashboardLoaded
    /\ inflight = NoOverlap

NextEdit ==
    \/ \E m \in Items : repInc(m)
    \/ \E m \in Items : repDec(m)
    \/ \E m \in Items : repRemove(m)
    \/ \E m \in Items : repAdd(m)

SpecEdit == InitEdit /\ [][NextEdit]_vars

-----------------------------------------------------------------------------
(* Cashier page (CashierPage): the cart and placeOrder *)

MaxPlaced == 1

Cashiers == {"cashier1"}

(* The menus the page may have loaded: the rows of menu_items with         *)
(* is_active, two at a time.                                               *)
CashierMenus ==
    { << [id |-> "X", price |-> Menu["X"]], [id |-> "Y", price |-> Menu["Y"]] >>,
      << [id |-> "X", price |-> Menu["X"]], [id |-> "Z", price |-> Menu["Z"]] >> }

AddToCart(prev, item) ==
    IF \E i \in DOMAIN prev : prev[i].id = item.id
    THEN MapSeq(prev, LAMBDA l :
             IF l.id = item.id THEN [l EXCEPT !.qty = l.qty + 1] ELSE l)
    ELSE Append(prev, [id |-> item.id, price |-> item.price, qty |-> 1])

IncCart(prev, id) ==
    MapSeq(prev, LAMBDA l : IF l.id = id THEN [l EXCEPT !.qty = l.qty + 1] ELSE l)

DecCartNoFilter(prev, id) ==
    MapSeq(prev, LAMBDA l : IF l.id = id THEN [l EXCEPT !.qty = l.qty - 1] ELSE l)

DecCart(prev, id) ==
    SelectSeq(
        MapSeq(prev, LAMBDA l : IF l.id = id THEN [l EXCEPT !.qty = l.qty - 1] ELSE l),
        LAMBDA l : l.qty > 0)

CartIds ==
    {cart[i].id : i \in DOMAIN cart}

QtyWithin(c) ==
    \A i \in DOMAIN c : c[i].qty <= MaxQty

addToCart(item) ==
    /\ QtyWithin(AddToCart(cart, item))
    /\ cart' = AddToCart(cart, item)
    /\ UNCHANGED <<store, outsideCashier, failures, menu, payment, saving, branchId,
                   placing, notice>>

inc(id) ==
    /\ id \in CartIds
    /\ QtyWithin(IncCart(cart, id))
    /\ cart' = IncCart(cart, id)
    /\ UNCHANGED <<store, outsideCashier, failures, menu, payment, saving, branchId,
                   placing, notice>>

dec(id) ==
    /\ id \in CartIds
    /\ cart' = DecCart(cart, id)
    /\ UNCHANGED <<store, outsideCashier, failures, menu, payment, saving, branchId,
                   placing, notice>>

(* The Clear button is disabled while the cart is empty. *)
clear ==
    /\ cart # <<>>
    /\ cart' = <<>>
    /\ UNCHANGED <<store, outsideCashier, failures, menu, payment, saving, branchId,
                   placing, notice>>

setPayment(p) ==
    /\ payment' = p
    /\ UNCHANGED <<store, outsideCashier, failures, menu, cart, saving, branchId,
                   placing, notice>>

PlaceAbortClears ==
    /\ notice' = [notice EXCEPT !.alerts = Append(@, "failed_to_save")]
    /\ saving' = FALSE
    /\ placing' = NoPlacing
    /\ cart' = <<>>
    /\ UNCHANGED store

(* catch + finally of placeOrder: alert the failure, clear the busy flag. *)
PlaceAbort ==
    /\ notice' = [notice EXCEPT !.alerts = Append(@, "failed_to_save")]
    /\ saving' = FALSE
    /\ placing' = NoPlacing
    /\ UNCHANGED <<store, cart>>

placeOrderUnchecked ==
    /\ ~saving
    /\ Len(orders) < MaxPlaced
    /\ notice' = Noticed(<<>>)
    /\ saving' = TRUE
    /\ placing' = [ pc      |-> "getUser",
                    cart    |-> cart,
                    payment |-> payment,
                    branch  |-> branchId,
                    orderId |-> NoId ]
    /\ UNCHANGED <<store, outsideCashier, failures, menu, cart, payment, branchId>>

(* placeOrder up to its first awaited call.  The Place Order button is     *)
(* disabled while saving; the function itself checks the cart and the      *)
(* branch.                                                                 *)
placeOrder ==
    /\ ~saving
    /\ IF cart = <<>>
       THEN /\ notice' = Noticed(<<>>)
            /\ UNCHANGED <<saving, placing>>
       ELSE IF branchId = NoBranch
       THEN /\ notice' = Noticed(<<"no_branch">>)
            /\ UNCHANGED <<saving, placing>>
       ELSE /\ Len(orders) < MaxPlaced
            /\ notice' = Noticed(<<>>)
            /\ saving' = TRUE
            /\ placing' = [ pc      |-> "getUser",
                            cart    |-> cart,
                            payment |-> payment,
                            branch  |-> branchId,
                            orderId |-> NoId ]
    /\ UNCHANGED <<store, outsideCashier, failures, menu, cart, payment, branchId>>

PlaceGetUser(user) ==
    /\ placing.pc = "getUser"
    /\ IF user = NoUser
       THEN PlaceAbort
       ELSE /\ placing' = [placing EXCEPT !.pc = "insertHeader"]
            /\ UNCHANGED <<store, cart, saving, notice>>
    /\ UNCHANGED <<outsideCashier, failures, menu, payment, branchId>>

PlaceInsertHeader(fail) ==
    /\ Answer(fail)
    /\ placing.pc = "insertHeader"
    /\ IF fail
       THEN PlaceAbort
       ELSE /\ orders' = InsertOrder(orders,
                              PlacedHeader(placing.cart, placing.branch,
                                           placing.payment))
            /\ order_lines' = Append(order_lines, <<>>)
            /\ placing' = [placing EXCEPT !.pc = "insertLines",
                                          !.orderId = Len(orders) + 1]
            /\ UNCHANGED <<cart, saving, notice>>
    /\ UNCHANGED <<outsideCashier, menu, payment, branchId>>

PlaceInsertLines(fail) ==
    /\ Answer(fail)
    /\ placing.pc = "insertLines"
    /\ IF fail
       THEN PlaceAbort
       ELSE /\ order_lines' = InsertLines(order_lines,
                                  PlacedLines(placing.cart, placing.orderId))
            /\ notice' = [notice EXCEPT !.alerts = Append(@, "order_saved")]
            /\ cart' = <<>>
            /\ saving' = FALSE
            /\ placing' = NoPlacing
            /\ UNCHANGED orders
    /\ UNCHANGED <<outsideCashier, menu, payment, branchId>>

(* The page after its mount effect: profile and menu loaded, nothing in    *)
(* the cart, no order placed yet.                                          *)
InitCashier ==
    /\ RouteIdle
    /\ DashboardUnmounted
    /\ DatesUnset
    /\ orders = <<>>
    /\ order_lines = <<>>
    /\ replaceMode = FALSE
    /\ replaceOldId = NoId
    /\ replaceNewId = NoId
    /\ voidReason = <<>>
    /\ replaceSaving = FALSE
    /\ replaceLines = <<>>
    /\ task = NoTask
    /\ last = Quiet
    /\ failures = 0
    /\ menu \in CashierMenus
    /\ cart = <<>>
    /\ payment = "CASH"
    /\ saving = FALSE
    /\ branchId \in {NoBranch, "b1"}
    /\ placing = NoPlacing
    /\ notice = NoNotice
    /\ DashboardBlank
    /\ inflight = NoOverlap

NextCashier ==
    \/ \E i \in DOMAIN menu : addToCart(menu[i])
    \/ \E i \in DOMAIN menu : inc(menu[i].id)
    \/ \E i \in DOMAIN menu : dec(menu[i].id)
    \/ clear
    \/ \E p \in {"CASH", "GCASH"} : setPayment(p)
    \/ placeOrder
    \/ \E u \in Cashiers \cup {NoUser} : PlaceGetUser(u)
    \/ \E fail \in BOOLEAN : PlaceInsertHeader(fail)
    \/ \E fail \in BOOLEAN : PlaceInsertLines(fail)

SpecCashier == InitCashier /\ [][NextCashier]_vars

-----------------------------------------------------------------------------
(* Password-reset route: POST /api/admin/reset-password *)

MinPasswordLen == 8

(* Authorization headers: absent, a bare token, "Bearer " without a token, *)
(* and bearer tokens in several spellings.                                 *)
AuthHeaders ==
    { <<>>,
      <<"1">>,
      <<"B", "e", "a", "r", "e", "r", " ">>,
      <<"B", "e", "a", "r", "e", "r", " ", "0">>,
      <<"b", "e", "a", "r", "e", "r", " ", "1", " ">>,
      <<"B", "E", "A", "R", "E", "R", " ", "2">>,
      <<"B", "e", "a", "r", "e", "r", " ", "3">> }

(* auth: the user a token resolves to.  Token 0 is unknown. *)
Sessions ==
    [t \in {<<"1">>, <<"2">>, <<"3">>} |->
        CASE t = <<"1">> -> "owner1"
          [] t = <<"2">> -> "cashier1"
          [] OTHER       -> "ghost"]

(* Table profiles: user -> role.  The user ghost has no profile row. *)
Profiles ==
    [u \in {"owner1", "cashier1"} |-> IF u = "owner1" THEN "owner" ELSE "cashier"]

CashierMode == <<"c", "a", "s", "h", "i", "e", "r">>

Modes ==
    { Undefined,
      Str(<<>>),
      Str(<<"o", "w", "n", "e", "r">>),
      Str(CashierMode),
      Str(<<"x">>) }

Passwords ==
    { Undefined,
      Str(<<>>),
      Str(<<"p", "a", "s", "s", "w", "o", "r">>),
      Str(<<"p", "a", "s", "s", "w", "o", "r", "d">>),
      Num(1234) }

Requests ==
    { [ authorization |-> h, json |-> j, mode |-> m, newPassword |-> pw ] :
          h \in AuthHeaders, j \in BOOLEAN, m \in Modes, pw \in Passwords }

Configs ==
    { [env |-> e, cashier_user_id |-> c] :
          e \in BOOLEAN, c \in {NoUser, "cashier1"} }

ToLowerCase(h) ==
    MapSeq(h, LAMBDA c : CASE c = "B" -> "b"
                           [] c = "E" -> "e"
                           [] c = "A" -> "a"
                           [] c = "R" -> "r"
                           [] OTHER   -> c)

StartsWith(h, prefix) ==
    /\ Len(h) >= Len(prefix)
    /\ SubSeq(h, 1, Len(prefix)) = prefix

(* getBearer: the token, <<>> standing for null and for the empty string   *)
(* (both are refused by `!token`).                                         *)
getBearer(h) ==
    IF ~StartsWith(ToLowerCase(h), <<"b", "e", "a", "r", "e", "r", " ">>)
    THEN <<>>
    ELSE Trim(SubSeq(h, 8, Len(h)))

(* !v *)
Falsy(v) ==
    \/ v.js = "undefined"
    \/ v.js = "string" /\ v.chars = <<>>
    \/ v.js = "number" /\ v.value = 0

TooShortNever(v) ==
    FALSE

(* newPassword.length < 8: the length of a number is undefined, and        *)
(* undefined < 8 is false.                                                 *)
TooShort(v) ==
    v.js = "string" /\ Len(v.chars) < MinPasswordLen

(* return NextResponse.json(...): the response, and the handler's locals   *)
(* as it ends.                                                             *)
Respond(h, status, ok) ==
    /\ responses' = Append(responses, [status |-> status, ok |-> ok])
    /\ handler' = [h EXCEPT !.pc = "done"]

(* POST up to `await viewer.auth.getUser()`. *)
POST ==
    /\ handler.pc = "start"
    /\ LET h == [handler EXCEPT !.token = getBearer(request.authorization)]
       IN  IF h.token = <<>> THEN Respond(h, 401, FALSE)
           ELSE IF ~config.env THEN Respond(h, 500, FALSE)
           ELSE /\ handler' = [h EXCEPT !.pc = "getUser"]
                /\ UNCHANGED responses
    /\ UNCHANGED <<outsideRoute, request, config, updateCalls>>

(* getUser answers; then the profiles lookup is issued. *)
PostGetUser(userErr) ==
    /\ handler.pc = "getUser"
    /\ LET h == [handler EXCEPT !.userErr = userErr]
       IN  IF userErr \/ h.token \notin DOMAIN Sessions
           THEN Respond(h, 401, FALSE)
           ELSE /\ handler' = [h EXCEPT !.pc = "profile",
                                        !.callerId = Sessions[h.token]]
                /\ UNCHANGED responses
    /\ UNCHANGED <<outsideRoute, request, config, updateCalls>>

(* The call of admin.updateUserById issued by the handler h. *)
IssueUpdate(h) ==
    /\ updateCalls' = Append(updateCalls, [ userId   |-> h.targetUserId,
                                            password |-> request.newPassword ])
    /\ handler' = [h EXCEPT !.pc = "update"]
    /\ UNCHANGED responses

(* The profiles lookup answers; the body is parsed and validated; then the *)
(* app_settings lookup (mode cashier) or the credential update is issued.  *)
(* req.json() throwing is caught by the outer catch.                       *)
PostProfile(profErr) ==
    /\ handler.pc = "profile"
    /\ LET h == [handler EXCEPT
                   !.profErr = profErr,
                   !.role = IF ~profErr /\ handler.callerId \in DOMAIN Profiles
                            THEN Profiles[handler.callerId] ELSE "null"]
       IN  IF profErr THEN Respond(h, 500, FALSE) /\ UNCHANGED updateCalls
           ELSE IF h.role # "owner" THEN Respond(h, 403, FALSE) /\ UNCHANGED updateCalls
           ELSE IF ~request.json THEN Respond(h, 500, FALSE) /\ UNCHANGED updateCalls
           ELSE IF Falsy(request.mode) \/ Falsy(request.newPassword)
           THEN Respond(h, 400, FALSE) /\ UNCHANGED updateCalls
           ELSE IF TooShort(request.newPassword)
           THEN Respond(h, 400, FALSE) /\ UNCHANGED updateCalls
           ELSE IF request.mode = Str(CashierMode)
           THEN /\ handler' = [h EXCEPT !.pc = "settings",
                                        !.targetUserId = h.callerId]
                /\ UNCHANGED <<responses, updateCalls>>
           ELSE IssueUpdate([h EXCEPT !.targetUserId = h.callerId])
    /\ UNCHANGED <<outsideRoute, request, config>>

(* The app_settings lookup answers. *)
PostSettings(sErr) ==
    /\ handler.pc = "settings"
    /\ LET h == [handler EXCEPT !.sErr = sErr]
       IN  IF sErr THEN Respond(h, 500, FALSE) /\ UNCHANGED updateCalls
           ELSE IF config.cashier_user_id = NoUser
           THEN Respond(h, 500, FALSE) /\ UNCHANGED updateCalls
           ELSE IssueUpdate([h EXCEPT !.targetUserId = config.cashier_user_id])
    /\ UNCHANGED <<outsideRoute, request, config>>

(* admin.updateUserById answers. *)
PostUpdate(updErr) ==
    /\ handler.pc = "update"
    /\ LET h == [handler EXCEPT !.updErr = updErr]
       IN  IF updErr THEN Respond(h, 400, FALSE) ELSE Respond(h, 200, TRUE)
    /\ UNCHANGED <<outsideRoute, request, config, updateCalls>>

(* One request has reached the route. *)
InitReset ==
    /\ CashierClosed
    /\ DashboardUnmounted
    /\ DatesUnset
    /\ orders = <<>>
    /\ order_lines = <<>>
    /\ replaceMode = FALSE
    /\ replaceOldId = NoId
    /\ replaceNewId = NoId
    /\ voidReason = <<>>
    /\ replaceSaving = FALSE
    /\ replaceLines = <<>>
    /\ task = NoTask
    /\ last = Quiet
    /\ failures = 0
    /\ request \in Requests
    /\ config \in Configs
    /\ handler = [NoHandler EXCEPT !.pc = "start"]
    /\ responses = <<>>
    /\ updateCalls = <<>>
    /\ DashboardBlank
    /\ inflight = NoOverlap

NextReset ==
    \/ POST
    \/ \E userErr \in BOOLEAN : PostGetUser(userErr)
    \/ \E profErr \in BOOLEAN : PostProfile(profErr)
    \/ \E sErr \in BOOLEAN : PostSettings(sErr)
    \/ \E updErr \in BOOLEAN : PostUpdate(updErr)

SpecReset == InitReset /\ [][NextReset]_vars

-----------------------------------------------------------------------------
(* Owner dashboard: the auto-refresh timer effect *)

MaxTimers == 6

RefreshSecs == {DefaultRefreshSec, 60}

outsideRefresher == <<store, ownerPage, cashier, route, failures, dates,
                      dashboard>>

CleanupNothing(ts, id) ==
    ts

(* The effect's cleanup, `() => clearInterval(id)`; an effect that         *)
(* returned early has none.                                                *)
Cleanup(ts, id) ==
    IF id = NoId THEN ts ELSE {t \in ts : t.id # id}

(* The timer effect under the state (enabled, sec), its previous run       *)
(* cleaned up first.                                                       *)
RunTimerEffect(enabled, sec) ==
    IF ~enabled
    THEN /\ timers' = Cleanup(timers, effectTimer)
         /\ effectTimer' = NoId
         /\ UNCHANGED <<created, closure>>
    ELSE /\ timers' = Cleanup(timers, effectTimer) \cup {Interval(created + 1, sec)}
         /\ effectTimer' = created + 1
         /\ created' = created + 1
         /\ closure' = Captured(startDate, endDate)

(* The component mounts: state initialised, both effects run. *)
Mount ==
    /\ ~mounted
    /\ created < MaxTimers
    /\ mounted' = TRUE
    /\ autoRefresh' = TRUE
    /\ refreshEverySec' = DefaultRefreshSec
    /\ reload' = "mount"
    /\ RunTimerEffect(TRUE, DefaultRefreshSec)
    /\ UNCHANGED outsideRefresher

(* A state update re-renders; the effect re-runs when a dependency has     *)
(* changed.                                                                *)
setAutoRefresh(b) ==
    /\ mounted
    /\ created < MaxTimers
    /\ autoRefresh' = b
    /\ IF b # autoRefresh
       THEN RunTimerEffect(b, refreshEverySec)
       ELSE UNCHANGED <<timers, effectTimer, created, closure>>
    /\ UNCHANGED <<outsideRefresher, mounted, refreshEverySec, reload>>

setRefreshEverySec(sec) ==
    /\ mounted
    /\ created < MaxTimers
    /\ refreshEverySec' = sec
    /\ IF sec # refreshEverySec
       THEN RunTimerEffect(autoRefresh, sec)
       ELSE UNCHANGED <<timers, effectTimer, created, closure>>
    /\ UNCHANGED <<outsideRefresher, mounted, autoRefresh, reload>>

(* A running interval fires: its callback calls refreshAll. *)
Tick(id) ==
    /\ \E t \in timers : t.id = id
    /\ reload' = "timer"
    /\ UNCHANGED <<outsideRefresher, mounted, autoRefresh, refreshEverySec,
                   timers, effectTimer, created, closure>>

RefreshDone ==
    /\ reload # "none"
    /\ reload' = "none"
    /\ UNCHANGED <<outsideRefresher, mounted, autoRefresh, refreshEverySec,
                   timers, effectTimer, created, closure>>

(* The component unmounts: the cleanups run. *)
Unmount ==
    /\ mounted
    /\ mounted' = FALSE
    /\ timers' = Cleanup(timers, effectTimer)
    /\ effectTimer' = NoId
    /\ UNCHANGED <<outsideRefresher, autoRefresh, refreshEverySec, created,
                   reload, closure>>

InitTimer ==
    /\ CashierClosed
    /\ RouteIdle
    /\ DatesUnset
    /\ DashboardUnmounted
    /\ orders = <<>>
    /\ order_lines = <<>>
    /\ replaceMode = FALSE
    /\ replaceOldId = NoId
    /\ replaceNewId = NoId
    /\ voidReason = <<>>
    /\ replaceSaving = FALSE
    /\ replaceLines = <<>>
    /\ task = NoTask
    /\ last = Quiet
    /\ failures = 0
    /\ DashboardBlank
    /\ inflight = NoOverlap

NextTimer ==
    \/ Mount
    \/ \E b \in BOOLEAN : setAutoRefresh(b)
    \/ \E sec \in RefreshSecs : setRefreshEverySec(sec)
    \/ \E id \in 1..MaxTimers : Tick(id)
    \/ RefreshDone
    \/ Unmount

SpecTimer == InitTimer /\ [][NextTimer]_vars

-----------------------------------------------------------------------------
(* Owner dashboard: the date filter and phDateRangeToUtcIso *)

(* The dates the filter can be set to: around month ends, a leap day and   *)
(* year ends.                                                              *)
FilterDates ==
    { Ymd(2023, 2, 28), Ymd(2023, 3, 1), Ymd(2023, 12, 31), Ymd(2024, 1, 1),
      Ymd(2024, 2, 28), Ymd(2024, 2, 29), Ymd(2024, 3, 1), Ymd(2024, 4, 30),
      Ymd(2024, 5, 1), Ymd(2024, 12, 31), Ymd(2025, 1, 1) }

(* Browser timezones, minutes east of UTC. *)
TimeZones == {-480, 0, 345, 480}

outsideDates == <<store, ownerPage, cashier, route, failures, refresher,
                  dashboard>>

setStartDate(d) ==
    /\ startDate' = d
    /\ UNCHANGED <<outsideDates, endDate, tz, range>>

setEndDate(d) ==
    /\ endDate' = d
    /\ UNCHANGED <<outsideDates, startDate, tz, range>>

(* loadMainRange / fetchOrdersOnly: the bounds of the query. *)
loadMainRange ==
    /\ range' = phDateRangeToUtcIso(startDate, endDate)
    /\ UNCHANGED <<outsideDates, startDate, endDate, tz>>

InitDates ==
    /\ CashierClosed
    /\ RouteIdle
    /\ DashboardMounted
    /\ orders = <<>>
    /\ order_lines = <<>>
    /\ replaceMode = FALSE
    /\ replaceOldId = NoId
    /\ replaceNewId = NoId
    /\ voidReason = <<>>
    /\ replaceSaving = FALSE
    /\ replaceLines = <<>>
    /\ task = NoTask
    /\ last = Quiet
    /\ failures = 0
    /\ \E today \in FilterDates : startDate = today /\ endDate = today
    /\ tz \in TimeZones
    /\ range = NoRange
    /\ DashboardLoaded
    /\ inflight = NoOverlap

NextDates ==
    \/ \E d \in FilterDates : setStartDate(d)
    \/ \E d \in FilterDates : setEndDate(d)
    \/ loadMainRange

SpecDates == InitDates /\ [][NextDates]_vars

-----------------------------------------------------------------------------
(* Owner dashboard: reloads (refreshAll, applyRange, loadMainRange) and    *)
(* exportCsv                                                               *)

MaxLoads == 2

(* Timers the effect creates in this specification, the first included. *)
MaxEffectRuns == 2

(* The start dates the owner picks in this specification; the end date     *)
(* stays at today, 2024-01-01, so the last one gives an empty range.       *)
DashDates == {Ymd(2023, 12, 31), Ymd(2024, 1, 1), Ymd(2024, 1, 2)}

(* 2023-12-31 11:00 in Manila. *)
Earlier == [y |-> 2023, m |-> 12, d |-> 31, hh |-> 3, mm |-> 0]

(* The tables when the dashboard opens: an order of the day before, an     *)
(* order of today with two lines, and its DRAFT replacement saved with an  *)
(* empty editor (no line, total 0).                                        *)
DashCartOne == << [id |-> "X", price |-> Menu["X"], qty |-> 1] >>

DashCartTwo == << [id |-> "Y", price |-> Menu["Y"], qty |-> 2],
                  [id |-> "Z", price |-> Menu["Z"], qty |-> 1] >>

DashOrders ==
    << [PlacedHeader(DashCartOne, "b1", "CASH") EXCEPT !.created_at = Earlier],
       PlacedHeader(DashCartTwo, "b2", "GCASH"),
       [DraftHeader(PlacedHeader(DashCartTwo, "b2", "GCASH"), 2)
           EXCEPT !.total_amount = 0] >>

DashLines ==
    << PlacedLines(DashCartOne, 1), PlacedLines(DashCartTwo, 2), <<>> >>

(* A loadMainRange invocation: who called it, its arguments, its position  *)
(* and, once the orders are in, the ids its lines query asks for.          *)
Load(by, startYmd, endYmd) ==
    [ by       |-> by,
      startYmd |-> startYmd,
      endYmd   |-> endYmd,
      pc       |-> "orders",
      orderIds |-> {} ]

Without(s, k) ==
    SubSeq(s, 1, k - 1) \o SubSeq(s, k + 1, Len(s))

(* setLoading(true); setErrorMsg(""); ...; loadMainRange(startYmd, endYmd) *)
(* up to its first query.  The profile check and loadBranchesOnce pass.    *)
StartLoad(by, startYmd, endYmd) ==
    /\ Len(loads) < MaxLoads
    /\ loading' = TRUE
    /\ errorMsg' = ""
    /\ loads' = Append(loads, Load(by, startYmd, endYmd))
    /\ UNCHANGED <<view, csv, dates>>

(* The interval fires: its callback calls the refreshAll of the render in  *)
(* which the timer effect ran, whatever the page shows.                    *)
TickReload(id) ==
    /\ \E t \in timers : t.id = id
    /\ StartLoad("timer", closure.startDate, closure.endDate)
    /\ reload' = "timer"
    /\ UNCHANGED <<store, ownerPage, cashier, route, failures, mounted,
                   autoRefresh, refreshEverySec, timers, effectTimer, created,
                   closure>>

(* The Apply button; the page shows only "Loading owner dashboard..."      *)
(* while loading.                                                          *)
applyRange ==
    /\ ~loading
    /\ StartLoad("applyRange", startDate, endDate)
    /\ UNCHANGED <<store, ownerPage, cashier, route, failures, refresher>>

(* catch + finally of refreshAll / applyRange, or their normal end. *)
EndLoad(k, msg) ==
    /\ loads' = Without(loads, k)
    /\ errorMsg' = msg
    /\ loading' = FALSE
    /\ reload' = IF loads[k].by = "timer" THEN "none" ELSE reload

(* The orders query of invocation k is answered. *)
LoadOrders(k, fail) ==
    /\ Answer(fail)
    /\ k \in DOMAIN loads
    /\ loads[k].pc = "orders"
    /\ IF fail
       THEN /\ EndLoad(k, "error")
            /\ UNCHANGED view
       ELSE LET r   == phDateRangeToUtcIso(loads[k].startYmd, loads[k].endYmd)
                ord == OrdersQuery(orders, r.startUtc, r.endUtc)
            IN  /\ dashOrders' = ord
                /\ IF ord = <<>>
                   THEN /\ lines' = <<>>
                        /\ EndLoad(k, errorMsg)
                   ELSE /\ loads' = [loads EXCEPT ![k].pc = "lines",
                                                  ![k].orderIds = OrderIds(ord)]
                        /\ UNCHANGED <<lines, errorMsg, loading, reload>>
    /\ UNCHANGED <<store, ownerPage, cashier, route, dates, csv, mounted,
                   autoRefresh, refreshEverySec, timers, effectTimer, created,
                   closure>>

(* The lines query of invocation k is answered (the names of menu_items    *)
(* with it).                                                               *)
LoadLines(k, fail) ==
    /\ Answer(fail)
    /\ k \in DOMAIN loads
    /\ loads[k].pc = "lines"
    /\ IF fail
       THEN /\ EndLoad(k, "error")
            /\ UNCHANGED view
       ELSE /\ lines' = Hydrate(LinesQuery(order_lines, loads[k].orderIds))
            /\ EndLoad(k, errorMsg)
            /\ UNCHANGED dashOrders
    /\ UNCHANGED <<store, ownerPage, cashier, route, dates, csv, mounted,
                   autoRefresh, refreshEverySec, timers, effectTimer, created,
                   closure>>

(* The totals the dashboard derives from the state orders (useMemo). *)

Amounts(ord) ==
    [k \in 1..Len(ord) |-> ord[k].total_amount]

paymentSplit(ord) ==
    [ cash  |-> SumSeq(Amounts(SelectSeq(ord, LAMBDA o : o.payment_type = "CASH"))),
      gcash |-> SumSeq(Amounts(SelectSeq(ord, LAMBDA o : o.payment_type = "GCASH"))) ]

totalSales(ord) ==
    SumSeq(Amounts(ord))

(* The entries of salesByBranch, branch_id -> (total, count); the page     *)
(* lists them by descending total.                                         *)
salesByBranch(ord) ==
    [ b \in {ord[k].branch_id : k \in DOMAIN ord} |->
        [ total |-> SumSeq(Amounts(SelectSeq(ord, LAMBDA o : o.branch_id = b))),
          count |-> Len(SelectSeq(ord, LAMBDA o : o.branch_id = b)) ] ]

(* exportCsv *)

DigitChars == <<"0", "1", "2", "3", "4", "5", "6", "7", "8", "9">>

(* String(n) for a natural number n. *)
RECURSIVE Digits(_)
Digits(n) ==
    IF n < 10 THEN <<DigitChars[n + 1]>>
    ELSE Digits(n \div 10) \o <<DigitChars[(n % 10) + 1]>>

Pad2(n) ==
    IF n < 10 THEN <<"0">> \o Digits(n) ELSE Digits(n)

(* Number(x).toFixed(2) for an amount x >= 0 in mils. *)
ToFixed2(x) ==
    LET c == Round2(x) \div 10
    IN  Digits(c \div 100) \o <<".">> \o Pad2(c % 100)

(* The text in which the backend returns a timestamptz. *)
IsoText(ts) ==
    Digits(ts.y) \o <<"-">> \o Pad2(ts.m) \o <<"-">> \o Pad2(ts.d) \o <<"T">>
        \o Pad2(ts.hh) \o <<":">> \o Pad2(ts.mm)
        \o <<":", "0", "0", "+", "0", "0", ":", "0", "0">>

Chars(str) ==
    CASE str = "b1"    -> <<"b", "1">>
      [] str = "b2"    -> <<"b", "2">>
      [] str = "CASH"  -> <<"C", "A", "S", "H">>
      [] str = "GCASH" -> <<"G", "C", "A", "S", "H">>
      [] OTHER         -> <<"?">>

(* The state branches (id -> name) the page has loaded; b2 has no row. *)
branchNameById == [b \in {"b1"} |-> <<"M", "a", "i", "n">>]

RECURSIVE DoubleQuotes(_)
DoubleQuotes(s) ==
    IF s = <<>> THEN <<>>
    ELSE (IF Head(s) = "\"" THEN <<"\"", "\"">> ELSE <<Head(s)>>)
             \o DoubleQuotes(Tail(s))

Includes(s, c) == \E i \in DOMAIN s : s[i] = c

escapeCsv(v) ==
    IF Includes(v, "\"") \/ Includes(v, ",") \/ Includes(v, "\n")
    THEN <<"\"">> \o DoubleQuotes(v) \o <<"\"">>
    ELSE v

(* Array.prototype.join *)
RECURSIVE Join(_, _)
Join(parts, sep) ==
    IF parts = <<>> THEN <<>>
    ELSE IF Len(parts) = 1 THEN parts[1]
    ELSE parts[1] \o sep \o Join(Tail(parts), sep)

header ==
    << <<"o", "r", "d", "e", "r", "_", "c", "r", "e", "a", "t", "e", "d", "_",
         "a", "t">>,
       <<"b", "r", "a", "n", "c", "h">>,
       <<"p", "a", "y", "m", "e", "n", "t", "_", "t", "y", "p", "e">>,
       <<"o", "r", "d", "e", "r", "_", "t", "o", "t", "a", "l">>,
       <<"i", "t", "e", "m", "_", "n", "a", "m", "e">>,
       <<"q", "t", "y">>,
       <<"l", "i", "n", "e", "_", "t", "o", "t", "a", "l">> >>

(* [...orders].sort((a, b) => (a.created_at < b.created_at ? 1 : -1)):     *)
(* newest first; the place of orders with equal created_at is the          *)
(* engine's choice, here behind the ones already placed.                   *)
RECURSIVE InsertSorted(_, _)
InsertSorted(sorted, o) ==
    IF sorted = <<>> THEN <<o>>
    ELSE IF Instant(Head(sorted).created_at) < Instant(o.created_at)
         THEN <<o>> \o sorted
         ELSE <<Head(sorted)>> \o InsertSorted(Tail(sorted), o)

RECURSIVE SortNewestFirst(_)
SortNewestFirst(ord) ==
    IF ord = <<>> THEN <<>>
    ELSE InsertSorted(SortNewestFirst(SubSeq(ord, 1, Len(ord) - 1)),
                      ord[Len(ord)])

(* The five fields every data row starts with. *)
OrderFields(o) ==
    << escapeCsv(Digits(o.id)),
       escapeCsv(IsoText(o.created_at)),
       escapeCsv(IF o.branch_id \in DOMAIN branchNameById
                 THEN branchNameById[o.branch_id]
                 ELSE Chars(o.branch_id)),
       escapeCsv(Chars(o.payment_type)),
       escapeCsv(ToFixed2(o.total_amount)) >>

(* The rows pushed for one order: one per line, or one with three empty    *)
(* fields.                                                                 *)
OrderCsvRows(o, ls) ==
    LET ol == SelectSeq(ls, LAMBDA l : l.order_id = o.id)
    IN  IF ol = <<>>
        THEN << Join(OrderFields(o) \o << <<>>, <<>>, <<>> >>, <<",">>) >>
        ELSE [k \in 1..Len(ol) |->
                Join(OrderFields(o) \o
                        << escapeCsv(ol[k].name),
                           escapeCsv(Digits(ol[k].qty)),
                           escapeCsv(ToFixed2(ol[k].line_total)) >>,
                     <<",">>)]

RECURSIVE DataRows(_, _)
DataRows(ordersSorted, ls) ==
    IF ordersSorted = <<>> THEN <<>>
    ELSE OrderCsvRows(Head(ordersSorted), ls) \o DataRows(Tail(ordersSorted), ls)

(* The array rows of exportCsv; the file is rows.join("\n"). *)
CsvRows(ord, ls) ==
    << Join(header, <<",">>) >> \o DataRows(SortNewestFirst(ord), ls)

exportCsv ==
    /\ ~loading
    /\ csv' = CsvRows(dashOrders, lines)
    /\ UNCHANGED <<store, ownerPage, cashier, route, failures, refresher, dates,
                   view, loading, errorMsg, loads>>

InitDash ==
    /\ CashierClosed
    /\ RouteIdle
    /\ DashboardMounted
    /\ DatesUnset
    /\ orders = DashOrders
    /\ order_lines = DashLines
    /\ replaceMode = FALSE
    /\ replaceOldId = NoId
    /\ replaceNewId = NoId
    /\ voidReason = <<>>
    /\ replaceSaving = FALSE
    /\ replaceLines = <<>>
    /\ task = NoTask
    /\ last = Quiet
    /\ failures = 0
    /\ DashboardLoaded
    /\ inflight = NoOverlap

NextDash ==
    \/ \E d \in DashDates : ~loading /\ setStartDate(d)
    \/ \E sec \in RefreshSecs :
          ~loading /\ created < MaxEffectRuns /\ setRefreshEverySec(sec)
    \/ applyRange
    \/ \E id \in 1..MaxTimers : TickReload(id)
    \/ \E k \in 1..MaxLoads, fail \in BOOLEAN : LoadOrders(k, fail)
    \/ \E k \in 1..MaxLoads, fail \in BOOLEAN : LoadLines(k, fail)
    \/ exportCsv

SpecDash == InitDash /\ [][NextDash]_vars

-----------------------------------------------------------------------------
(* Replacement editor: Save Draft and Finalize Replacement clicked while   *)
(* an earlier invocation is still running                                  *)

outsideOverlap == <<task, failures, cashier, route, refresher, dates>>

(* A valid void reason, typed before the clicks. *)
TypedReason == <<" ", "b", "a", "d", " ">>

(* What follows the return of saveReplacementDraft in invocation t. *)
SlotAfterSave(t) ==
    IF t.op = "finalizeReplacement" THEN Issue(t, "paid")
    ELSE [t EXCEPT !.pc = "done"]

(* catch + finally of saveReplacementDraft in invocation i. *)
SlotSaveAbort(i) ==
    /\ inflight' = [inflight EXCEPT ![i] = SlotAfterSave(Failed(@))]
    /\ last' = Alert("error")
    /\ replaceSaving' = FALSE
    /\ UNCHANGED <<store, editor, dashboard>>

(* catch + finally of finalizeReplacement in invocation i. *)
SlotFinalizeAbort(i) ==
    /\ inflight' = [inflight EXCEPT ![i] = [Failed(@) EXCEPT !.pc = "done"]]
    /\ last' = Alert("error")
    /\ replaceSaving' = FALSE
    /\ UNCHANGED <<store, editor, dashboard>>

(* Save Draft: saveReplacementDraft up to its first awaited call. *)
SlotSaveClick(i) ==
    /\ inflight[i] = NoTask
    /\ replaceMode
    /\ replaceNewId # NoId
    /\ replaceSaving' = TRUE
    /\ inflight' = [inflight EXCEPT ![i] =
                      [NoTask EXCEPT !.op = "saveReplacementDraft",
                                     !.pc = "saveDelete",
                                     !.newId = replaceNewId,
                                     !.lines = replaceLines,
                                     !.calls = 1]]
    /\ last' = Shown("saveReplacementDraft", "none", <<>>)
    /\ UNCHANGED <<store, editor, dashboard, outsideOverlap>>

(* Finalize Replacement: the validation passes, the confirm is accepted,   *)
(* the session holds the owner; up to the first awaited call of the inner  *)
(* saveReplacementDraft.                                                   *)
SlotFinalizeClick(i, sessionUser) ==
    /\ inflight[i] = NoTask
    /\ replaceMode
    /\ replaceOldId # NoId /\ replaceNewId # NoId
    /\ Validation(voidReason, replaceLines) = "none"
    /\ replaceSaving' = TRUE
    /\ inflight' = [inflight EXCEPT ![i] =
                      [NoTask EXCEPT !.op = "finalizeReplacement",
                                     !.pc = "saveDelete",
                                     !.oldId = replaceOldId,
                                     !.newId = replaceNewId,
                                     !.lines = replaceLines,
                                     !.reason = voidReason,
                                     !.ownerId = sessionUser,
                                     !.calls = 1]]
    /\ last' = Shown("finalizeReplacement", "ok", <<>>)
    /\ UNCHANGED <<store, editor, dashboard, outsideOverlap>>

SlotDelete(i, fail) ==
    /\ Answer(fail)
    /\ inflight[i].pc = "saveDelete"
    /\ IF fail
       THEN SlotSaveAbort(i)
       ELSE /\ order_lines' = DeleteLines(order_lines, inflight[i].newId)
            /\ inflight' = [inflight EXCEPT ![i] =
                  Issue(@, IF SavePayload(@.lines, @.newId) # <<>>
                           THEN "saveInsert" ELSE "saveTotal")]
            /\ UNCHANGED <<orders, editor, replaceSaving, last, dashboard>>
    /\ UNCHANGED <<task, cashier, route, refresher, dates>>

SlotInsert(i, fail) ==
    /\ Answer(fail)
    /\ inflight[i].pc = "saveInsert"
    /\ IF fail
       THEN SlotSaveAbort(i)
       ELSE /\ order_lines' = InsertLines(order_lines,
                                 SavePayload(inflight[i].lines, inflight[i].newId))
            /\ inflight' = [inflight EXCEPT ![i] = Issue(@, "saveTotal")]
            /\ UNCHANGED <<orders, editor, replaceSaving, last, dashboard>>
    /\ UNCHANGED <<task, cashier, route, refresher, dates>>

SlotTotal(i, fail) ==
    /\ Answer(fail)
    /\ inflight[i].pc = "saveTotal"
    /\ IF fail
       THEN SlotSaveAbort(i)
       ELSE /\ orders' = UpdateTotal(orders, inflight[i].newId,
                                     ReplaceTotal(inflight[i].lines))
            /\ inflight' = [inflight EXCEPT ![i] = SlotAfterSave(@)]
            /\ last' = Alert("draft_saved")
            /\ replaceSaving' = FALSE
            /\ UNCHANGED <<order_lines, editor, dashboard>>
    /\ UNCHANGED <<task, cashier, route, refresher, dates>>

SlotPaid(i, fail) ==
    /\ Answer(fail)
    /\ inflight[i].pc = "paid"
    /\ IF fail
       THEN SlotFinalizeAbort(i)
       ELSE /\ orders' = UpdatePaid(orders, inflight[i].newId)
            /\ inflight' = [inflight EXCEPT ![i] = Issue(@, "voided")]
            /\ UNCHANGED <<order_lines, editor, replaceSaving, last, dashboard>>
    /\ UNCHANGED <<task, cashier, route, refresher, dates>>

SlotVoided(i, fail, now) ==
    /\ Answer(fail)
    /\ inflight[i].pc = "voided"
    /\ IF fail
       THEN SlotFinalizeAbort(i)
       ELSE /\ orders' = UpdateVoided(orders, inflight[i].oldId, now,
                                      inflight[i].ownerId,
                                      Trim(inflight[i].reason), inflight[i].newId)
            /\ inflight' = [inflight EXCEPT ![i].pc = "refresh"]
            /\ last' = Alert("finalized")
            /\ EditorReset
            /\ UNCHANGED <<order_lines, replaceSaving, dashboard>>
    /\ UNCHANGED <<task, cashier, route, refresher, dates>>

(* The refreshAll that ends finalizeReplacement, then its finally block. *)
SlotRefresh(i, outcome) ==
    /\ Answer(outcome # "ok")
    /\ inflight[i].pc = "refresh"
    /\ LET after == AfterLoad(outcome,
                              [orders |-> dashOrders, lines |-> lines],
                              MainRange(orders, order_lines, startDate, endDate))
       IN  /\ dashOrders' = after.orders
           /\ lines' = after.lines
    /\ errorMsg' = IF outcome = "ok" THEN "" ELSE "error"
    /\ loading' = FALSE
    /\ inflight' = [inflight EXCEPT ![i].pc = "done"]
    /\ replaceSaving' = FALSE
    /\ UNCHANGED <<store, editor, last, loads, csv, task, cashier, route,
                   refresher, dates>>

(* The editor open on the DRAFT of a placed order, its lines as            *)
(* startVoidAndReplace copied them, a reason typed.                        *)
InitOverlap ==
    /\ CashierClosed
    /\ RouteIdle
    /\ DashboardMounted
    /\ DatesUnset
    /\ \E c \in EditCarts :
          LET placed == << PlacedHeader(c, "b1", "CASH") >>
              rows   == PlacedLines(c, 1)
          IN  /\ orders = InsertOrder(placed, DraftHeader(OldHeader(placed, 1), 1))
              /\ order_lines = << rows, NewLinesDb(rows, 2) >>
              /\ replaceLines = EditorLines(rows)
    /\ replaceMode = TRUE
    /\ replaceOldId = 1
    /\ replaceNewId = 2
    /\ voidReason = TypedReason
    /\ replaceSaving = FALSE
    /\ task = NoTask
    /\ last = Quiet
    /\ failures = 0
    /\ DashboardLoaded
    /\ inflight = NoOverlap

NextOverlap ==
    \/ \E i \in 1..MaxOverlap : SlotSaveClick(i)
    \/ \E i \in 1..MaxOverlap, u \in Owners : SlotFinalizeClick(i, u)
    \/ \E i \in 1..MaxOverlap, fail \in BOOLEAN : SlotDelete(i, fail)
    \/ \E i \in 1..MaxOverlap, fail \in BOOLEAN : SlotInsert(i, fail)
    \/ \E i \in 1..MaxOverlap, fail \in BOOLEAN : SlotTotal(i, fail)
    \/ \E i \in 1..MaxOverlap, fail \in BOOLEAN : SlotPaid(i, fail)
    \/ \E i \in 1..MaxOverlap, fail \in BOOLEAN, now \in Times :
          SlotVoided(i, fail, now)
    \/ \E i \in 1..MaxOverlap, outcome \in ReloadOutcomes :
          SlotRefresh(i, outcome)

SpecOverlap == InitOverlap /\ [][NextOverlap]_vars

-----------------------------------------------------------------------------
(* Properties *)

Ids == DOMAIN orders

LineTotals(rows) ==
    SumSeq(MapSeq(rows, LAMBDA r : r.line_total))

(* The rows an order holds when its lines are exactly the editor lines rl. *)
RowsOfEditor(rl, orderId) ==
    [i \in 1..Len(rl) |->
        [ order_id     |-> orderId,
          menu_item_id |-> rl[i].menu_item_id,
          qty          |-> rl[i].qty,
          unit_price   |-> rl[i].unit_price,
          line_total   |-> rl[i].unit_price * rl[i].qty ]]

EditorTotal(rl) ==
    SumSeq([i \in 1..Len(rl) |-> rl[i].unit_price * rl[i].qty])

EditorIdle ==
    /\ replaceMode = FALSE
    /\ replaceOldId = NoId
    /\ replaceNewId = NoId
    /\ replaceLines = <<>>
    /\ voidReason = <<>>

(* C1: once a backend call of a finalizeReplacement has failed, that       *)
(* finalizeReplacement issues no further backend call (so it sets neither  *)
(* the new order to PAID nor the old order to VOIDED).                     *)
C1_ErrorAbortsFinalize ==
    (task.op = "finalizeReplacement" /\ task.failedAt # 0)
        => task.calls = task.failedAt

(* C2: a finalizeReplacement invoked with a void reason shorter than 3     *)
(* characters after trimming, or with no replacement line, issues no       *)
(* backend call, changes no order, no order line and nothing of the        *)
(* editor, and shows a validation alert.  (The Finalize button exists only *)
(* in replace mode, where both ids are set, so the silent id guard never   *)
(* pre-empts the validation.)                                              *)
C2_InvalidFinalizeDoesNothing ==
    [][ /\ replaceMode => (replaceOldId # NoId /\ replaceNewId # NoId)
        /\ ( /\ Resting
             /\ replaceMode
             /\ (Len(Trim(voidReason)) < 3 \/ Len(replaceLines) = 0)
             /\ last'.op = "finalizeReplacement" )
           => ( /\ task' = NoTask
                /\ UNCHANGED <<store, editor, replaceSaving>>
                /\ last'.alerts \in { <<"reason_too_short">>,
                                      <<"replacement_empty">> } )
      ]_vars

C2_Witness ==
    /\ Resting
    /\ last = Shown("finalizeReplacement", "none", <<"reason_too_short">>)
    /\ voidReason = <<" ", "a", "b", " ">>
    /\ replaceLines # <<>>

(* C3: right after the VOIDED update of a finalizeReplacement whose every  *)
(* backend call succeeded, the new order is PAID with exactly the editor's *)
(* lines and their total, the old order is VOIDED with the trimmed reason, *)
(* the owner's id and replaced_by = the new order, and the editor is idle. *)
C3_FinalizePostcondition ==
    (task.op = "finalizeReplacement" /\ task.pc = "refresh" /\ task.failedAt = 0)
        => /\ task.newId \in Ids /\ task.oldId \in Ids
           /\ orders[task.newId].status = "PAID"
           /\ order_lines[task.newId] = RowsOfEditor(task.lines, task.newId)
           /\ orders[task.newId].total_amount = EditorTotal(task.lines)
           /\ orders[task.oldId].status = "VOIDED"
           /\ orders[task.oldId].void_reason = Trim(task.reason)
           /\ orders[task.oldId].voided_by = task.ownerId
           /\ task.ownerId \in Owners
           /\ orders[task.oldId].replaced_by = task.newId
           /\ EditorIdle

C3_Witness ==
    /\ task.op = "finalizeReplacement" /\ task.pc = "refresh" /\ task.failedAt = 0
    /\ task.reason = <<" ", "b", "a", "d", " ">>
    /\ orders[task.oldId].void_reason = <<"b", "a", "d">>
    /\ Len(task.lines) = 1 /\ task.lines[1].qty = 1
    /\ orders[task.newId].total_amount = 3000

(* C4: every VOIDED order has void_reason, voided_by, voided_at and        *)
(* replaced_by set, and replaced_by is the id of exactly one existing      *)
(* order whose replaces is the voided order.                               *)
C4_VoidedHasAuditTrail ==
    \A o \in Ids :
        orders[o].status = "VOIDED"
            => /\ orders[o].void_reason # NullReason
               /\ orders[o].voided_by # NoUser
               /\ orders[o].voided_at # NoTime
               /\ orders[o].replaced_by # NoId
               /\ Cardinality({ n \in Ids : /\ n = orders[o].replaced_by
                                            /\ orders[n].replaces = o }) = 1

C4_Witness ==
    \E o \in Ids : orders[o].status = "VOIDED" /\ orders[o].replaced_by \in Ids

(* C5: once a replacement is finalized (N is PAID, N.replaces = O, O is    *)
(* VOIDED with replaced_by = N), O.replaced_by stays N and O's void        *)
(* metadata never changes, whatever operation follows.                     *)
FinalizedPair(o, n) ==
    /\ orders[n].status = "PAID"
    /\ orders[n].replaces = o
    /\ orders[o].status = "VOIDED"
    /\ orders[o].replaced_by = n

C5_PairingImmutable ==
    [][ \A o \in Ids, n \in Ids :
            FinalizedPair(o, n)
                => /\ orders'[o].replaced_by = n
                   /\ orders'[o].status = "VOIDED"
                   /\ orders'[o].voided_at = orders[o].voided_at
                   /\ orders'[o].voided_by = orders[o].voided_by
                   /\ orders'[o].void_reason = orders[o].void_reason
      ]_vars

(* C6: whenever no handler is in flight, every order that is not a DRAFT   *)
(* has total_amount equal to the sum of its lines' line_total.             *)
C6_RestTotalsMatchLines ==
    Resting =>
        \A o \in Ids :
            orders[o].status # "DRAFT"
                => orders[o].total_amount = LineTotals(order_lines[o])

(* C7: when startVoidAndReplace has returned with every backend call       *)
(* succeeded, the new order is a DRAFT with replaces = the old order and   *)
(* the old order's branch, payment type and total, its rows equal the old  *)
(* order's rows (item, qty, unit price, line total), and the editor holds  *)
(* the same (item, qty, unit price) triples.                               *)
StartReturnedOk ==
    Resting /\ last = Shown("startVoidAndReplace", "ok", <<>>)

SameRow(a, b) ==
    /\ a.menu_item_id = b.menu_item_id
    /\ a.qty = b.qty
    /\ a.unit_price = b.unit_price
    /\ a.line_total = b.line_total

C7_StartCopiesOrder ==
    StartReturnedOk =>
        /\ replaceMode
        /\ replaceOldId \in Ids /\ replaceNewId \in Ids
        /\ replaceNewId # replaceOldId
        /\ orders[replaceNewId].status = "DRAFT"
        /\ orders[replaceNewId].replaces = replaceOldId
        /\ orders[replaceNewId].branch_id = orders[replaceOldId].branch_id
        /\ orders[replaceNewId].payment_type = orders[replaceOldId].payment_type
        /\ orders[replaceNewId].total_amount = orders[replaceOldId].total_amount
        /\ Len(order_lines[replaceNewId]) = Len(order_lines[replaceOldId])
        /\ \A i \in DOMAIN order_lines[replaceOldId] :
              /\ SameRow(order_lines[replaceNewId][i], order_lines[replaceOldId][i])
              /\ order_lines[replaceNewId][i].order_id = replaceNewId
        /\ Len(replaceLines) = Len(order_lines[replaceOldId])
        /\ \A i \in DOMAIN order_lines[replaceOldId] :
              /\ replaceLines[i].menu_item_id = order_lines[replaceOldId][i].menu_item_id
              /\ replaceLines[i].qty = order_lines[replaceOldId][i].qty
              /\ replaceLines[i].unit_price = order_lines[replaceOldId][i].unit_price

C7_Witness ==
    /\ StartReturnedOk
    /\ replaceNewId \in Ids
    /\ orders[replaceNewId].payment_type = "GCASH"
    /\ Len(order_lines[replaceNewId]) = 1
    /\ order_lines[replaceNewId][1].qty = 2
    /\ order_lines[replaceNewId][1].line_total = 6000

(* C8: a successful saveReplacementDraft leaves the draft with exactly the *)
(* editor's lines and their total; one that directly follows a successful  *)
(* save of the same lines leaves the rows and the total as it found them.  *)
C8_SaveIdempotent ==
    [][ ( /\ task.op = "saveReplacementDraft"
          /\ task' = NoTask
          /\ last'.alerts = <<"draft_saved">> )
        => ( /\ order_lines'[task.newId] = RowsOfEditor(task.lines, task.newId)
             /\ orders'[task.newId].total_amount = EditorTotal(task.lines)
             /\ task.lines = replaceLines
             /\ task.again =>
                   /\ order_lines'[task.newId] = task.preLines
                   /\ orders'[task.newId].total_amount = task.preTotal )
      ]_vars

C8_Witness ==
    /\ task.op = "saveReplacementDraft"
    /\ task.again
    /\ task.pc = "saveTotal"
    /\ task.lines # <<>>
    /\ task.lines[1].qty = 1
    /\ order_lines[task.newId] = task.preLines

(* C9: when a read or insert of startVoidAndReplace fails, the handler     *)
(* issues no further backend call, the store keeps everything written so   *)
(* far, an alert is shown, and the editor state is what it was before the  *)
(* call (no step of a startVoidAndReplace that does not return             *)
(* successfully changes it).                                               *)
StartStepFails ==
    task.op = "startVoidAndReplace" /\ failures' = failures + 1

StartStepReturnsOk ==
    task.op = "startVoidAndReplace" /\ task' = NoTask /\ failures' = failures

C9_StartFailureAborts ==
    [][ /\ StartStepFails
            => /\ task' = NoTask
               /\ store' = store
               /\ last'.alerts = <<"error">>
               /\ replaceSaving' = FALSE
        /\ ((task.op = "startVoidAndReplace" \/ task'.op = "startVoidAndReplace")
              /\ ~StartStepReturnsOk)
            => editor' = editor
      ]_vars

C9_Witness ==
    /\ Resting
    /\ last = Shown("startVoidAndReplace", "ok", <<"error">>)
    /\ ~replaceMode /\ replaceOldId = NoId /\ replaceNewId = NoId
    /\ Len(orders) = 2
    /\ orders[2].status = "DRAFT"
    /\ order_lines[2] = <<>>

(* C10: a confirmed cancelReplacement issues no backend call and changes   *)
(* no order and no order line, and leaves the editor idle; a declined one  *)
(* changes nothing.                                                        *)
C10_CancelOnlyResetsEditor ==
    [][ last'.op = "cancelReplacement"
            => /\ store' = store
               /\ task' = task /\ task = NoTask
               /\ replaceSaving' = replaceSaving
               /\ last'.confirm = "ok" => EditorIdle'
               /\ last'.confirm = "declined" => editor' = editor
      ]_vars

C10_Witness ==
    /\ last = Shown("cancelReplacement", "ok", <<>>)
    /\ EditorIdle
    /\ \E n \in Ids : /\ orders[n].status = "DRAFT"
                      /\ orders[n].replaces # NoId
                      /\ order_lines[n] # <<>>

(* C11: the editing operations repInc, repDec, repRemove and repAdd issue  *)
(* no backend call and change no order or order line; starting from lines  *)
(* with positive quantities and distinct items, every editor line keeps    *)
(* qty >= 1 and no two lines share an item; repDec lowers a quantity above *)
(* 1 by one and leaves a quantity of 1 at 1; repInc, repDec and repAdd     *)
(* remove no line.                                                         *)
LinesValid(rl) ==
    /\ \A i \in DOMAIN rl : rl[i].qty >= 1
    /\ \A i \in DOMAIN rl, j \in DOMAIN rl :
          rl[i].menu_item_id = rl[j].menu_item_id => i = j

C11_EditsKeepLinesValid ==
    [][ /\ LinesValid(replaceLines) /\ LinesValid(replaceLines')
        /\ store' = store
        /\ task = NoTask /\ task' = NoTask
        /\ failures' = failures
        /\ \A m \in Items :
              /\ repDec(m) =>
                    /\ Len(replaceLines') = Len(replaceLines)
                    /\ \A i \in DOMAIN replaceLines :
                          /\ replaceLines'[i].menu_item_id = replaceLines[i].menu_item_id
                          /\ replaceLines'[i].unit_price = replaceLines[i].unit_price
                          /\ replaceLines'[i].qty =
                                IF replaceLines[i].menu_item_id # m THEN replaceLines[i].qty
                                ELSE IF replaceLines[i].qty = 1 THEN 1
                                ELSE replaceLines[i].qty - 1
              /\ (repInc(m) \/ repDec(m) \/ repAdd(m)) =>
                    \A i \in DOMAIN replaceLines :
                        \E j \in DOMAIN replaceLines' :
                            replaceLines'[j].menu_item_id = replaceLines[i].menu_item_id
      ]_vars

C11_Witness ==
    /\ replaceMode
    /\ Len(order_lines[2]) = 2
    /\ order_lines[2][1].qty = 2
    /\ Len(replaceLines) = 1
    /\ replaceLines[1].menu_item_id = order_lines[2][1].menu_item_id
    /\ replaceLines[1].qty = 1

(* C12: while the editor is open, repAdd(item) for any item of the menu    *)
(* catalog appends a line (qty 1, the item's price) when the item is       *)
(* absent from the editor and raises the existing line's qty by one when   *)
(* it is present.                                                          *)
AddedFromCatalog(rl, m) ==
    IF \E i \in DOMAIN rl : rl[i].menu_item_id = m
    THEN [i \in DOMAIN rl |->
            IF rl[i].menu_item_id = m THEN [rl[i] EXCEPT !.qty = @ + 1] ELSE rl[i]]
    ELSE Append(rl, [menu_item_id |-> m, unit_price |-> Menu[m], qty |-> 1])

C12_AddFromCatalog ==
    \A m \in Items :
        ( /\ Idle /\ replaceMode
          /\ \A i \in DOMAIN replaceLines :
                replaceLines[i].menu_item_id = m => replaceLines[i].qty < MaxQty )
        => ENABLED ( /\ repAdd(m)
                     /\ replaceLines' = AddedFromCatalog(replaceLines, m) )

-----------------------------------------------------------------------------
(* Cashier page *)

(* A step of the placeOrder invocation in flight, or its start. *)
PlaceStep == placing' # placing

(* An invocation of placeOrder that returns before its first backend call. *)
PlaceRefused ==
    /\ placeOrder
    /\ cart = <<>> \/ branchId = NoBranch

C14_CartClearedAfterBothInserts ==
    [][ PlaceStep =>
          /\ cart' # cart =>
                /\ placing.pc = "insertLines"
                /\ cart' = <<>>
                /\ order_lines'[placing.orderId] # <<>>
          /\ order_lines' # order_lines /\ Len(order_lines') = Len(order_lines) =>
                /\ placing.pc = "insertLines"
                /\ placing.orderId \in DOMAIN orders
                /\ orders[placing.orderId].status = "NEW"
                /\ order_lines[placing.orderId] = <<>>
                /\ orders' = orders
          /\ placing.pc = "insertHeader" /\ orders' = orders =>
                /\ order_lines' = order_lines
                /\ cart' = cart
                /\ placing' = NoPlacing
                /\ notice'.alerts = Append(notice.alerts, "failed_to_save")
          /\ placing.pc = "insertLines" /\ order_lines' = order_lines =>
                /\ orders' = orders
                /\ orders'[placing.orderId].status = "NEW"
                /\ order_lines'[placing.orderId] = <<>>
                /\ cart' = cart
                /\ placing' = NoPlacing
                /\ notice'.alerts = Append(notice.alerts, "failed_to_save") ]_vars

(* The line insert has failed: an order header without lines, the cart     *)
(* still filled.                                                           *)
C14_Witness ==
    /\ Len(orders) = 1
    /\ orders[1].status = "NEW"
    /\ order_lines[1] = <<>>
    /\ placing = NoPlacing
    /\ notice = Noticed(<<"failed_to_save">>)
    /\ Len(cart) = 2

(* r is the whole-centavo amount nearest to x. *)
NearestCentavo(r, x) ==
    /\ r % 10 = 0
    /\ 2 * (r - x) <= 10
    /\ 2 * (x - r) < 10

WholeCentavos(c) ==
    \A i \in DOMAIN c : c[i].price % 10 = 0

(* C15: the step in which placeOrder succeeds leaves an order whose        *)
(* total_amount is the sum of price x qty over the submitted cart rounded  *)
(* to the centavo, with one line per cart entry, in cart order, whose      *)
(* line_total is price x qty rounded to the centavo; when every submitted  *)
(* price is in whole centavos, total_amount is the sum of the persisted    *)
(* line_total values.                                                      *)
C15_PlacedTotals ==
    [][ PlaceStep /\ placing.pc = "insertLines" /\ order_lines' # order_lines =>
          LET c    == placing.cart
              o    == orders'[placing.orderId]
              rows == order_lines'[placing.orderId]
          IN  /\ NearestCentavo(o.total_amount,
                                SumSeq([i \in DOMAIN c |-> c[i].price * c[i].qty]))
              /\ o.status = "NEW"
              /\ Len(rows) = Len(c)
              /\ \A i \in DOMAIN c :
                    /\ rows[i].order_id = placing.orderId
                    /\ rows[i].menu_item_id = c[i].id
                    /\ rows[i].qty = c[i].qty
                    /\ NearestCentavo(rows[i].unit_price, c[i].price)
                    /\ NearestCentavo(rows[i].line_total, c[i].price * c[i].qty)
              /\ WholeCentavos(c) =>
                    o.total_amount = SumSeq([i \in DOMAIN rows |-> rows[i].line_total])
        ]_vars

(* A placed order of two lines whose rounding is not the identity: the     *)
(* second line is the item priced below the centavo, twice.                *)
C15_Witness ==
    /\ Len(orders) = 1
    /\ Len(order_lines[1]) = 2
    /\ order_lines[1][2].menu_item_id = "Z"
    /\ order_lines[1][2].qty = 2
    /\ order_lines[1][2].line_total # Menu["Z"] * 2
    /\ notice = Noticed(<<"order_saved">>)
    /\ cart = <<>>

CartValid(c) ==
    /\ \A i \in DOMAIN c : c[i].qty >= 1
    /\ \A i, j \in DOMAIN c : c[i].id = c[j].id => i = j

QtyOf(c, id) ==
    SumSeq([i \in DOMAIN c |-> IF c[i].id = id THEN c[i].qty ELSE 0])

(* C16: every step leaves the cart with quantities of at least 1 and no    *)
(* two lines of the same item; dec on a line of quantity 1 removes that    *)
(* line and leaves the other lines as they were, in their order; dec on a  *)
(* line of a larger quantity lowers that quantity by one and changes       *)
(* nothing else.                                                           *)
C16_CartStaysValid ==
    [][ /\ CartValid(cart)
        /\ CartValid(cart')
        /\ \A i \in DOMAIN menu :
              dec(menu[i].id) =>
                 IF QtyOf(cart, menu[i].id) = 1
                 THEN cart' = SelectSeq(cart, LAMBDA l : l.id # menu[i].id)
                 ELSE /\ Len(cart') = Len(cart)
                      /\ \A k \in DOMAIN cart :
                            cart'[k] = IF cart[k].id = menu[i].id
                                       THEN [cart[k] EXCEPT !.qty = @ - 1]
                                       ELSE cart[k] ]_vars

(* The cart submitted held two lines, the first of quantity 1; the cart    *)
(* has since lost exactly that line.                                       *)
C16_Witness ==
    /\ placing.pc = "getUser"
    /\ Len(placing.cart) = 2
    /\ placing.cart[1].qty = 1
    /\ cart = Tail(placing.cart)

-----------------------------------------------------------------------------
(* Password-reset route *)

Served == handler.pc = "done"

Status == responses[1].status

(* The facts of a request, in the order the route establishes them. *)
HasToken == getBearer(request.authorization) # <<>>

Configured == HasToken /\ config.env

Authenticated ==
    /\ Configured
    /\ ~handler.userErr
    /\ getBearer(request.authorization) \in DOMAIN Sessions

Caller == Sessions[getBearer(request.authorization)]

IsOwner ==
    /\ Authenticated
    /\ ~handler.profErr
    /\ Caller \in DOMAIN Profiles
    /\ Profiles[Caller] = "owner"

Parsed == IsOwner /\ request.json

IsText(v, n) == v.js = "string" /\ Len(v.chars) >= n

Accepted ==
    /\ Parsed
    /\ request.mode.js = "string" /\ request.mode.chars # <<>>
    /\ IsText(request.newPassword, MinPasswordLen)

ForCashier == request.mode = Str(CashierMode)

(* C17: a request gets no response while it is being served and exactly    *)
(* one once the handler has ended, and the handler always can go on until  *)
(* it ends.  The response is 401 when no token is sent or, the environment *)
(* being configured, the token does not resolve; 403 when the caller has   *)
(* no profile or is not an owner; 400 when mode or newPassword is missing, *)
(* when newPassword is a text shorter than 8 characters, and when the      *)
(* credential update fails; 500 when the environment is not configured,    *)
(* when the profile or the app_settings lookup fails and when no cashier   *)
(* account is configured; 200 with {ok: true} exactly when the credential  *)
(* update was invoked and succeeded.                                       *)
C17_OneResponsePerRequest ==
    /\ handler.pc # "idle" =>
          /\ Len(responses) = IF Served THEN 1 ELSE 0
          /\ ~Served => ENABLED NextReset
    /\ Served =>
          /\ Status \in {200, 400, 401, 403, 500}
          /\ ~HasToken => Status = 401
          /\ HasToken /\ ~config.env => Status = 500
          /\ Configured /\ ~Authenticated => Status = 401
          /\ Authenticated /\ handler.profErr => Status = 500
          /\ Authenticated /\ ~handler.profErr /\ ~IsOwner => Status = 403
          /\ Parsed /\ (Falsy(request.mode) \/ Falsy(request.newPassword)) => Status = 400
          /\ Parsed /\ request.newPassword.js = "string"
                    /\ Len(request.newPassword.chars) < MinPasswordLen => Status = 400
          /\ Accepted /\ ForCashier /\ (handler.sErr \/ config.cashier_user_id = NoUser)
                => Status = 500
          /\ updateCalls # <<>> /\ handler.updErr => Status = 400
          /\ Status = 200 <=> updateCalls # <<>> /\ ~handler.updErr
          /\ responses[1].ok <=> Status = 200

(* The owner's request for the cashier account has been answered 200. *)
C17_Witness ==
    /\ Served
    /\ Status = 200
    /\ ForCashier
    /\ updateCalls = << [ userId   |-> "cashier1",
                          password |-> request.newPassword ] >>

(* C18: the credential update is invoked at most once per request, and     *)
(* only for a request whose token resolves to a user with role owner and   *)
(* whose newPassword is a text of at least 8 characters; it targets the    *)
(* configured cashier account when mode is "cashier" and the caller's own  *)
(* account otherwise.                                                      *)
C18_UpdateGuarded ==
    /\ Len(updateCalls) <= 1
    /\ updateCalls # <<>> =>
          /\ IsOwner
          /\ IsText(request.newPassword, MinPasswordLen)
          /\ updateCalls[1].password = request.newPassword
          /\ updateCalls[1].userId = IF ForCashier THEN config.cashier_user_id
                                     ELSE Caller
          /\ updateCalls[1].userId # NoUser

-----------------------------------------------------------------------------
(* Auto-refresh timer *)

TimerState ==
    /\ Cardinality(timers) <= 1
    /\ ~autoRefresh => timers = {}
    /\ ~mounted => timers = {}
    /\ mounted /\ autoRefresh =>
          timers = {Interval(effectTimer, refreshEverySec)}

(* C19: at most one interval is running at any time, and it is the one of  *)
(* the current settings; none is running while auto-refresh is off or the  *)
(* component is unmounted, so that no interval can fire then; a step that  *)
(* changes the enabled flag or the period, and the unmount, leave none of  *)
(* the intervals that were running.                                        *)
C19_OneTimer ==
    [][ /\ TimerState
        /\ TimerState'
        /\ (~mounted \/ ~autoRefresh) => ~ENABLED (\E id \in 1..MaxTimers : Tick(id))
        /\ autoRefresh' # autoRefresh \/ refreshEverySec' # refreshEverySec \/ ~mounted' =>
              timers \cap timers' = {}
        /\ reload' = "timer" /\ reload # "timer" => mounted /\ autoRefresh ]_vars

(* The period was changed while a reload started by the previous interval  *)
(* is in flight: the interval running is a later one, with the new period. *)
C19_Witness ==
    /\ mounted
    /\ reload = "timer"
    /\ refreshEverySec = 60
    /\ timers = {Interval(2, 60)}

-----------------------------------------------------------------------------
(* Date ranges *)

IsLeap(y) ==
    (y % 4 = 0 /\ y % 100 # 0) \/ y % 400 = 0

DaysIn(y, m) ==
    IF m = 2 THEN (IF IsLeap(y) THEN 29 ELSE 28)
    ELSE IF m \in {4, 6, 9, 11} THEN 30
    ELSE 31

NextDay(dt) ==
    IF dt.d < DaysIn(dt.y, dt.m) THEN Ymd(dt.y, dt.m, dt.d + 1)
    ELSE IF dt.m < 12 THEN Ymd(dt.y, dt.m + 1, 1)
    ELSE Ymd(dt.y + 1, 1, 1)

PrevDay(dt) ==
    IF dt.d > 1 THEN Ymd(dt.y, dt.m, dt.d - 1)
    ELSE IF dt.m > 1 THEN Ymd(dt.y, dt.m - 1, DaysIn(dt.y, dt.m - 1))
    ELSE Ymd(dt.y - 1, 12, 31)

DateLeq(a, b) ==
    \/ a.y < b.y
    \/ a.y = b.y /\ a.m < b.m
    \/ a.y = b.y /\ a.m = b.m /\ a.d <= b.d

(* Midnight of the date dt on a UTC+8 clock, as UTC calendar fields: 16:00 *)
(* of the day before.                                                      *)
PhMidnightUtc(dt) ==
    [y |-> PrevDay(dt).y, m |-> PrevDay(dt).m, d |-> PrevDay(dt).d,
     hh |-> 16, mm |-> 0]

DayOf(iso) == Ymd(iso.y, iso.m, iso.d)

FirstOfNextMonth(dt) ==
    NextDay(Ymd(dt.y, dt.m, DaysIn(dt.y, dt.m)))

RECURSIVE DaysUpTo(_, _)
(* The number of calendar days from a up to and including b (a <= b),      *)
(* counted month by month.                                                 *)
DaysUpTo(a, b) ==
    IF a.y = b.y /\ a.m = b.m THEN b.d - a.d + 1
    ELSE (DaysIn(a.y, a.m) - a.d + 1) + DaysUpTo(FirstOfNextMonth(a), b)

RECURSIVE AddDays(_, _)
(* The date n days after dt, reached month by month. *)
AddDays(dt, n) ==
    IF dt.d + n <= DaysIn(dt.y, dt.m) THEN Ymd(dt.y, dt.m, dt.d + n)
    ELSE AddDays(FirstOfNextMonth(dt), n - (DaysIn(dt.y, dt.m) - dt.d + 1))

IsoBefore(a, b) ==
    \/ DateLeq(DayOf(a), DayOf(b)) /\ DayOf(a) # DayOf(b)
    \/ DayOf(a) = DayOf(b) /\ a.hh * 60 + a.mm < b.hh * 60 + b.mm

(* C20: for every inclusive pair s <= e of the filter and every browser    *)
(* timezone, phDateRangeToUtcIso(s, e) starts at UTC+8 midnight of s and   *)
(* ends at UTC+8 midnight of the calendar day after e, both expressed in   *)
(* UTC; the start is before the end, and the two bounds are at the same    *)
(* time of day and (e - s + 1) calendar days apart.                        *)
C20_RangeIsHalfOpenPhDays ==
    DateLeq(startDate, endDate) =>
        LET r == phDateRangeToUtcIso(startDate, endDate)
        IN  /\ r.startUtc = PhMidnightUtc(startDate)
            /\ r.endUtc = PhMidnightUtc(NextDay(endDate))
            /\ IsoBefore(r.startUtc, r.endUtc)
            /\ r.startUtc.hh = r.endUtc.hh /\ r.startUtc.mm = r.endUtc.mm
            /\ AddDays(DayOf(r.startUtc), DaysUpTo(startDate, endDate)) = DayOf(r.endUtc)

(* The range of 2023-12-31 .. 2024-02-29 has been computed in a browser    *)
(* west of UTC: it runs over a year end and ends on the leap day.          *)
C20_Witness ==
    /\ tz = -480
    /\ startDate = Ymd(2023, 12, 31)
    /\ endDate = Ymd(2024, 2, 29)
    /\ range.startUtc = [y |-> 2023, m |-> 12, d |-> 30, hh |-> 16, mm |-> 0]
    /\ range.endUtc = [y |-> 2024, m |-> 2, d |-> 29, hh |-> 16, mm |-> 0]

-----------------------------------------------------------------------------
(* Void/replace: order of the finalize updates, deletions, busy flag *)

Finalizing == task.op = "finalizeReplacement"

IsPrefix(s, t) ==
    Len(s) <= Len(t) /\ s = SubSeq(t, 1, Len(s))

VoidFields(o) ==
    <<o.status, o.voided_at, o.voided_by, o.void_reason, o.replaced_by>>

(* C22: finalizeReplacement issues the VOIDED update only once its PAID    *)
(* update has succeeded.  A failed PAID update leaves both tables as they  *)
(* were.  A failed VOIDED update leaves the new order PAID and the old     *)
(* order with its previous status and void fields, alerts the error and    *)
(* leaves the editor open with the same ids, lines and reason, with no     *)
(* invocation in flight, so that finalizeReplacement can be started again  *)
(* on that pair.                                                           *)
C22_PaidBeforeVoided ==
    [][ /\ (Finalizing /\ task'.pc = "voided" /\ task.pc # "voided") =>
              /\ task.pc = "paid"
              /\ orders'[task.newId].status = "PAID"
        /\ (Finalizing /\ task.pc = "voided") =>
              orders[task.newId].status = "PAID"
        /\ (Finalizing /\ task.pc = "paid" /\ task'.pc # "voided") =>
              /\ store' = store
              /\ task' = NoTask
              /\ last'.alerts = Append(last.alerts, "error")
        /\ (Finalizing /\ task.pc = "voided" /\ task'.pc # "refresh") =>
              /\ store' = store
              /\ orders'[task.newId].status = "PAID"
              /\ VoidFields(orders'[task.oldId]) = VoidFields(orders[task.oldId])
              /\ last'.alerts = Append(last.alerts, "error")
              /\ editor' = editor
              /\ replaceMode'
              /\ replaceOldId' = task.oldId
              /\ replaceNewId' = task.newId
              /\ replaceLines' = task.lines
              /\ voidReason' = task.reason
              /\ task' = NoTask
      ]_vars

(* The VOIDED update has failed: the new order is PAID, the old order is   *)
(* not VOIDED, the error is shown and the editor is still open on the      *)
(* pair.                                                                   *)
C22_Witness ==
    /\ Resting
    /\ replaceMode
    /\ replaceOldId # NoId /\ replaceNewId # NoId
    /\ orders[replaceNewId].status = "PAID"
    /\ orders[replaceOldId].status # "VOIDED"
    /\ last.op = "finalizeReplacement"
    /\ last.alerts = <<"draft_saved", "error">>
    /\ replaceLines # <<>>

(* C24: no order row is ever deleted or moved; rows of order_lines are     *)
(* removed or changed only by the delete of saveReplacementDraft, on the   *)
(* replacement open in the editor, which is a DRAFT; the lines of the old  *)
(* order of the editor are never changed.                                  *)
C24_OnlyDraftLinesDeleted ==
    [][ /\ Len(orders') >= Len(orders)
        /\ \A i \in DOMAIN order_lines :
              /\ ~ IsPrefix(order_lines[i], order_lines'[i]) =>
                    /\ task.op \in {"saveReplacementDraft",
                                    "finalizeReplacement"}
                    /\ task.pc = "saveDelete"
                    /\ replaceMode
                    /\ i = replaceNewId
                    /\ i = task.newId
                    /\ order_lines'[i] = <<>>
                    /\ orders[i].status = "DRAFT"
              /\ i \in {replaceOldId, task.oldId} =>
                    order_lines'[i] = order_lines[i]
      ]_vars

(* C25: while a finalizeReplacement has a backend write in flight or ahead *)
(* of it, replaceSaving is true.                                           *)
C25_BusyDuringFinalize ==
    (Finalizing /\ task.pc \in {"saveDelete", "saveInsert", "saveTotal",
                                "paid", "voided"})
        => replaceSaving

(* C28: no two orders have the same non-null replaces value.               *)
C28_OneReplacementPerOrder ==
    \A i, j \in DOMAIN orders :
        (orders[i].replaces # NoId /\ orders[i].replaces = orders[j].replaces)
            => i = j

-----------------------------------------------------------------------------
(* Password-reset route: the mode *)

OwnerMode == <<"o", "w", "n", "e", "r">>

(* C30: for an authenticated owner whose request carries a non-empty mode  *)
(* other than "cashier" and "owner" and a newPassword of at least 8        *)
(* characters, the route performs no credential update and answers 400.    *)
C30_OtherModeRefused ==
    ( /\ Served
      /\ Accepted
      /\ request.mode.chars \notin {CashierMode, OwnerMode} )
        => (updateCalls = <<>> /\ Status = 400)

-----------------------------------------------------------------------------
(* Owner dashboard: reloads, totals and the exported file *)

(* Reading a CSV row: a comma separates two fields when it stands outside  *)
(* quotes, that is after an even number of quote characters.               *)
Separators(row) ==
    { i \in DOMAIN row :
        /\ row[i] = ","
        /\ Cardinality({j \in 1..(i - 1) : row[j] = "\""}) % 2 = 0 }

FieldCount(row) == Cardinality(Separators(row)) + 1

(* The text of the first field of a row. *)
FirstField(row) ==
    LET ends == Separators(row) \cup {Len(row) + 1}
        stop == CHOOSE i \in ends : \A j \in ends : i <= j
    IN  SubSeq(row, 1, stop - 1)

LinesOf(ls, id) == SelectSeq(ls, LAMBDA l : l.order_id = id)

(* One row per line of a loaded order, one row for a loaded order with no  *)
(* line.                                                                   *)
ExpectedDataRows(ord, ls) ==
    SumSeq([k \in 1..Len(ord) |->
              IF LinesOf(ls, ord[k].id) = <<>> THEN 1
              ELSE Len(LinesOf(ls, ord[k].id))])

(* C21: an export writes, below the header, one row per line of the loaded *)
(* orders and one row per loaded order without lines, and every row of the *)
(* file, the header included, has eight fields, the first being the order  *)
(* id (a loaded order's id in a data row).                                 *)
C21_EightFieldsPerRow ==
    [][ csv' # csv =>
          /\ Len(csv') = 1 + ExpectedDataRows(dashOrders, lines)
          /\ \A k \in DOMAIN csv' : FieldCount(csv'[k]) = 8
          /\ \A k \in 2..Len(csv') :
                \E o \in OrderIds(dashOrders) : FirstField(csv'[k]) = Digits(o)
      ]_vars

(* C23: a reload started by the interval is a loadMainRange for the start  *)
(* and end dates selected at that moment.                                  *)
C23_TimerReloadUsesSelectedDates ==
    [][ ( /\ Len(loads') = Len(loads) + 1
          /\ loads'[Len(loads')].by = "timer" ) =>
            /\ loads'[Len(loads')].startYmd = startDate
            /\ loads'[Len(loads')].endYmd = endDate
      ]_vars

(* C27: whenever no reload is in flight, every displayed line belongs to a *)
(* displayed order.                                                        *)
C27_LinesBelongToShownOrders ==
    loads = <<>> =>
        \A k \in DOMAIN lines : lines[k].order_id \in OrderIds(dashOrders)

(* The loaded orders that count as sales. *)
Sold(ord) ==
    SelectSeq(ord, LAMBDA o : o.status \notin {"VOIDED", "DRAFT"})

(* finalizeReplacement has finalized a pair and its refreshAll has         *)
(* reloaded the range without error.                                       *)
FinalizedAndReloaded ==
    /\ Resting
    /\ last.op = "finalizeReplacement"
    /\ \E k \in DOMAIN last.alerts : last.alerts[k] = "finalized"
    /\ errorMsg = ""

(* C29: after a finalizeReplacement that succeeded and reloaded, the total *)
(* sales, the payment split and the per-branch totals count the loaded     *)
(* orders that are neither VOIDED nor DRAFT, and only those.               *)
C29_TotalsCountSoldOrders ==
    FinalizedAndReloaded =>
        /\ \E k \in DOMAIN dashOrders : dashOrders[k].status = "PAID"
        /\ totalSales(dashOrders) = totalSales(Sold(dashOrders))
        /\ paymentSplit(dashOrders) = paymentSplit(Sold(dashOrders))
        /\ \A b \in DOMAIN salesByBranch(dashOrders) :
              salesByBranch(dashOrders)[b].total =
                 IF b \in DOMAIN salesByBranch(Sold(dashOrders))
                 THEN salesByBranch(Sold(dashOrders))[b].total
                 ELSE 0

-----------------------------------------------------------------------------
(* Replacement editor: overlapping saves *)

(* Both invocations have run to their end without a failed call, on the    *)
(* same draft with the same editor lines.                                  *)
BothCompleted ==
    /\ \A i \in 1..MaxOverlap :
          /\ inflight[i].op # "none"
          /\ inflight[i].pc = "done"
          /\ inflight[i].failedAt = 0
    /\ \A i, j \in 1..MaxOverlap :
          /\ inflight[i].newId = inflight[j].newId
          /\ inflight[i].lines = inflight[j].lines

(* C26: once two overlapping invocations that save the same draft with the *)
(* same editor lines have both completed successfully, the draft's         *)
(* persisted lines are the editor's lines, each once, and its total_amount *)
(* is the sum of the persisted line totals.                                *)
C26_OverlappingSavesPersistOnce ==
    BothCompleted =>
        LET d == inflight[1].newId
        IN  /\ order_lines[d] = SavePayload(inflight[1].lines, d)
            /\ orders[d].total_amount =
                  SumSeq([k \in 1..Len(order_lines[d]) |->
                            order_lines[d][k].line_total])

====
